---- MODULE Spec2Model ----
(***************************************************************************)
(* A model of TaskService (src/src/services/task.service.ts): the client   *)
(* of the Vikunja task API and its authentication-retry cascade.           *)
(*                                                                         *)
(* The state is the client's configuration (base URL, token) and, per      *)
(* logical call, the operation and its arguments, the requests it has      *)
(* handed to the network, the result the request primitive gave for each   *)
(* of them, and the outcome delivered to the caller.  The request          *)
(* primitive VikunjaService.request lives in core/service, which is not    *)
(* part of the sources at hand; it is modelled from the specification      *)
(* (sections 6 and 7) and from the copy of its response handling that      *)
(* uploadTaskAttachment carries.                                           *)
(***************************************************************************)
EXTENDS Naturals, Sequences, FiniteSets, TLC

VARIABLES client, calls

vars == <<client, calls>>

(***************************************************************************)
(* Bounds of the model.                                                    *)
(***************************************************************************)
\* Numeric ids (task, user, label) range over 1..MaxId.
MaxId == 2

Ids == 1..MaxId

\* The logical calls that may be open at the same time under Spec.
CallSlots == {1}

(***************************************************************************)
(* The client's configuration.  The token is optional: the code reads it   *)
(* as `this.token || ''` and tests `if (this.token)`.                      *)
(***************************************************************************)
BaseUrl == "https://vikunja.example.com/api/v1"

NoToken == [set |-> FALSE, value |-> ""]

Tokens == {NoToken, [set |-> TRUE, value |-> ""], [set |-> TRUE, value |-> "tokA"]}

\* JavaScript truthiness of an optional string.
Truthy(t) == t.set /\ t.value # ""

\* `this.token || ''`
OrEmpty(t) == IF Truthy(t) THEN t.value ELSE ""

\* `${this.token}` inside a template literal: undefined prints as "undefined".
Template(t) == IF t.set THEN t.value ELSE "undefined"

HasPrefix(s, p) == Len(s) >= Len(p) /\ SubSeq(s, 1, Len(p)) = p

(***************************************************************************)
(* Requests.  A body is absent (undefined) or a JSON value; options carry  *)
(* the headers a call site passes to the request primitive.                *)
(***************************************************************************)
NoHeaders == [n \in {} |-> ""]

NoBody == [present |-> FALSE, json |-> [none |-> TRUE]]

JsonBody(v) == [present |-> TRUE, json |-> v]

\* Query parameters as the caller gives them: the entries of the params
\* object in their order, each a key with a number, a string, a boolean or
\* undefined.
NoParams == <<>>

NumParam(key, n) == [key |-> key, kind |-> "number", num |-> n, str |-> "", bool |-> FALSE]

StrParam(key, v) == [key |-> key, kind |-> "string", num |-> 0, str |-> v, bool |-> FALSE]

BoolParam(key, b) == [key |-> key, kind |-> "boolean", num |-> 0, str |-> "", bool |-> b]

UndefinedParam(key) ==
  [key |-> key, kind |-> "undefined", num |-> 0, str |-> "", bool |-> FALSE]

\* The arguments of one request(path, method, body, options) call; options
\* are {params?, headers?, responseType?}.
ReqArgs(path, method, body, headers) ==
  [path |-> path, method |-> method, body |-> body, headers |-> headers,
   params |-> NoParams, responseType |-> "json"]

\* The same call with options.params given.
WithParams(args, params) == [args EXCEPT !.params = params]

\* The same call with options.responseType given.
WithResponseType(args, responseType) == [args EXCEPT !.responseType = responseType]

(***************************************************************************)
(* What the network can answer to one request: an HTTP response (status,   *)
(* whether its body parses as JSON, the parsed body) or a failure of the   *)
(* fetch itself.                                                           *)
(***************************************************************************)
OkStatuses == {200}

ErrorStatuses == {401, 403, 404, 500}

ServerMessages == {"m1", "m2"}

Payloads == {"v1", "v2"}

NoJson == [none |-> TRUE]

HttpResponses ==
  [kind : {"http"}, status : OkStatuses, json : {TRUE}, body : [data : Payloads]]
  \cup [kind : {"http"}, status : ErrorStatuses, json : {TRUE}, body : [message : ServerMessages]]
  \cup [kind : {"http"}, status : ErrorStatuses, json : {FALSE}, body : {NoJson}]

NetworkFailures == [kind : {"neterr"}, message : {"", "ECONNRESET"}]

Responses == HttpResponses \cup NetworkFailures

(***************************************************************************)
(* The error hierarchy imported from core/service (line 5 of the service): *)
(* VikunjaError, its subtype VikunjaAuthenticationError, and the two       *)
(* subtypes of that, AssigneeAuthenticationError and                       *)
(* LabelAuthenticationError.  Every error carries message, endpoint,       *)
(* method, statusCode and response.                                        *)
(***************************************************************************)
NoError == [none |-> TRUE]

MkError(cls, message, endpoint, method, statusCode, response) ==
  [cls |-> cls, message |-> message, endpoint |-> endpoint, method |-> method,
   statusCode |-> statusCode, response |-> response]

VikunjaError(message, endpoint, method, statusCode, response) ==
  MkError("VikunjaError", message, endpoint, method, statusCode, response)

VikunjaAuthenticationError(message, endpoint, method, statusCode, response) ==
  MkError("VikunjaAuthenticationError", message, endpoint, method, statusCode, response)

AssigneeAuthenticationError(message, endpoint, method, statusCode, response) ==
  MkError("AssigneeAuthenticationError", message, endpoint, method, statusCode, response)

LabelAuthenticationError(message, endpoint, method, statusCode, response) ==
  MkError("LabelAuthenticationError", message, endpoint, method, statusCode, response)

\* The classes an error of class cls is an instance of.
SuperClasses(cls) ==
  CASE cls = "VikunjaError" -> {"VikunjaError"}
    [] cls = "VikunjaAuthenticationError" -> {"VikunjaError", "VikunjaAuthenticationError"}
    [] cls = "AssigneeAuthenticationError" ->
         {"VikunjaError", "VikunjaAuthenticationError", "AssigneeAuthenticationError"}
    [] cls = "LabelAuthenticationError" ->
         {"VikunjaError", "VikunjaAuthenticationError", "LabelAuthenticationError"}
    [] OTHER -> {}

\* `error instanceof cls`
InstanceOf(error, cls) == cls \in SuperClasses(error.cls)

(***************************************************************************)
(* The request primitive, VikunjaService.request(path, method, body,       *)
(* options).  It builds the URL from the base URL and the path, attaches   *)
(* the default headers (bearer auth, JSON content type) unless overridden, *)
(* and turns a non-2xx response or a network failure into a typed error.   *)
(***************************************************************************)
\* The names under which a call site can present its own credential.
AuthHeaderNames == {"Authorization", "authorization", "X-API-Token"}

\* The default headers: JSON content type, and the bearer token when one is
\* configured.
DefaultHeaders(token) ==
  ("Content-Type" :> "application/json")
  @@ (IF Truthy(token) THEN ("Authorization" :> ("Bearer " \o token.value)) ELSE NoHeaders)

\* A default header is overridden by an option header of the same name; the
\* default bearer header is also overridden by any credential header of the
\* call site, which replaces it.
Overridden(name, headers) ==
  \/ name \in DOMAIN headers
  \/ name = "Authorization" /\ (DOMAIN headers) \cap AuthHeaderNames # {}

\* The headers of the request as sent.
RequestHeaders(token, headers) ==
  LET def == DefaultHeaders(token)
  IN  headers @@ [n \in {m \in DOMAIN def : ~Overridden(m, headers)} |-> def[n]]

\* buildUrl(path) without query parameters.
BuildUrl(cl, path) == cl.baseUrl \o path

\* String(value) of a query parameter.
ParamText(p) ==
  CASE p.kind = "number" -> ToString(p.num)
    [] p.kind = "boolean" -> (IF p.bool THEN "true" ELSE "false")
    [] p.kind = "string" -> p.str
    [] OTHER -> ""

\* The form encoding of a query value: a space becomes "+"; the letters,
\* digits and "_" of the values at hand stay as they are.
RECURSIVE FormEncode(_)
FormEncode(str) ==
  IF Len(str) = 0 THEN ""
  ELSE (IF SubSeq(str, 1, 1) = " " THEN "+" ELSE SubSeq(str, 1, 1))
       \o FormEncode(SubSeq(str, 2, Len(str)))

\* key=value of every entry that has a value, in the order given, joined by "&".
RECURSIVE JoinParams(_)
JoinParams(params) ==
  IF Len(params) = 0 THEN ""
  ELSE LET p == Head(params)
           rest == JoinParams(Tail(params))
       IN  IF p.kind = "undefined" THEN rest
           ELSE p.key \o "=" \o FormEncode(ParamText(p))
                \o (IF rest = "" THEN "" ELSE "&" \o rest)

\* The query string of the URL: empty when no entry has a value.
QueryString(params) ==
  LET q == JoinParams(params) IN IF q = "" THEN "" ELSE "?" \o q

\* buildUrl(path, params).
BuildUrlWithParams(cl, path, params) == BuildUrl(cl, path) \o QueryString(params)

\* The request that request(path, method, body, options) hands to fetch.
Send(cl, args) ==
  [url |-> BuildUrlWithParams(cl, args.path, args.params), path |-> args.path,
   method |-> args.method, body |-> args.body,
   headers |-> RequestHeaders(cl.token, args.headers), responseType |-> args.responseType]

FallbackMessage(status) == "API request failed with status " \o ToString(status)

\* The parsed error body, or the fallback when the body is not JSON.
ErrorResponseOf(resp) ==
  IF resp.json THEN resp.body ELSE [message |-> FallbackMessage(resp.status)]

\* `a || b` on strings.
OrElse(a, b) == IF a # "" THEN a ELSE b

NoValue == [none |-> TRUE]

Success(value) == [ok |-> TRUE, value |-> value, error |-> NoError]

Failure(error) == [ok |-> FALSE, value |-> NoValue, error |-> error]

IsOk(status) == status >= 200 /\ status <= 299

\* What request(args) gives its caller when the network answers resp (args
\* are read for the endpoint and the method the error reports): the
\* parsed body of a 2xx response, a VikunjaAuthenticationError for 401/403,
\* a VikunjaError for any other status, and a VikunjaError with status 0 when
\* the fetch itself failed.
RequestResult(args, resp) ==
  IF resp.kind = "neterr"
  THEN Failure(VikunjaError(OrElse(resp.message, "Network error"), args.path, args.method, 0,
                            [message |-> OrElse(resp.message, "Network error")]))
  ELSE IF IsOk(resp.status)
  THEN Success(resp.body)
  ELSE LET er == ErrorResponseOf(resp)
           msg == OrElse(er.message, FallbackMessage(resp.status))
       IN  IF resp.status = 401 \/ resp.status = 403
           THEN Failure(VikunjaAuthenticationError(msg, args.path, args.method, resp.status, er))
           ELSE Failure(VikunjaError(msg, args.path, args.method, resp.status, er))

(***************************************************************************)
(* The six retried operations.  For each: the arguments of its n-th        *)
(* request (n = 1 the plain call, n = 2 the X-API-Token retry, n = 3 the   *)
(* lowercase authorization retry), the test its catch blocks apply to the  *)
(* error of attempt n (n = 1, 2) before retrying, and what its innermost   *)
(* catch block throws for the error of attempt 3.                          *)
(***************************************************************************)
IdStr(n) == ToString(n)

AssigneePrefix ==
  "Assignee operation failed due to authentication issue. "
  \o "This may occur even with valid tokens. " \o "Original error: "

LabelPrefix ==
  "Label operation failed due to authentication issue. "
  \o "This may occur even with valid tokens. " \o "Original error: "

\* ---- assignUserToTask(taskId, userId) ----
\* Variant: the two fallback headers are tried in the other order.
assignUserToTask_request_swapped(n, taskId, userId, token) ==
  CASE n = 1 -> ReqArgs("/tasks/" \o IdStr(taskId) \o "/assignees", "PUT",
                        JsonBody([user_id |-> userId]), NoHeaders)
    [] n = 2 -> ReqArgs("/tasks/" \o IdStr(taskId) \o "/assignees", "PUT",
                        JsonBody([user_id |-> userId]),
                        ("authorization" :> ("Bearer " \o Template(token))))
    [] n = 3 -> ReqArgs("/tasks/" \o IdStr(taskId) \o "/assignees", "PUT",
                        JsonBody([user_id |-> userId]), ("X-API-Token" :> OrEmpty(token)))

assignUserToTask_request(n, taskId, userId, token) ==
  CASE n = 1 -> ReqArgs("/tasks/" \o IdStr(taskId) \o "/assignees", "PUT",
                        JsonBody([user_id |-> userId]), NoHeaders)
    [] n = 2 -> ReqArgs("/tasks/" \o IdStr(taskId) \o "/assignees", "PUT",
                        JsonBody([user_id |-> userId]), ("X-API-Token" :> OrEmpty(token)))
    [] n = 3 -> ReqArgs("/tasks/" \o IdStr(taskId) \o "/assignees", "PUT",
                        JsonBody([user_id |-> userId]),
                        ("authorization" :> ("Bearer " \o Template(token))))

assignUserToTask_retry(n, error) ==
  CASE n = 1 -> InstanceOf(error, "VikunjaError")
                /\ (error.statusCode = 401 \/ error.statusCode = 403)
    [] n = 2 -> InstanceOf(error, "VikunjaError")
                /\ (error.statusCode = 401 \/ error.statusCode = 403)

\* Variant: the specialized error is built with the status 401 written out.
assignUserToTask_final_fixed401(finalError) ==
  IF InstanceOf(finalError, "VikunjaAuthenticationError")
  THEN AssigneeAuthenticationError(AssigneePrefix \o finalError.message, finalError.endpoint,
                                   finalError.method, 401, finalError.response)
  ELSE finalError

assignUserToTask_final(finalError) ==
  IF InstanceOf(finalError, "VikunjaAuthenticationError")
  THEN AssigneeAuthenticationError(AssigneePrefix \o finalError.message, finalError.endpoint,
                                   finalError.method, finalError.statusCode, finalError.response)
  ELSE finalError

\* ---- bulkAssignUsersToTask(taskId, assignees) ----
bulkAssignUsersToTask_request(n, taskId, assignees, token) ==
  CASE n = 1 -> ReqArgs("/tasks/" \o IdStr(taskId) \o "/assignees/bulk", "POST",
                        JsonBody(assignees), NoHeaders)
    [] n = 2 -> ReqArgs("/tasks/" \o IdStr(taskId) \o "/assignees/bulk", "POST",
                        JsonBody(assignees), ("X-API-Token" :> OrEmpty(token)))
    [] n = 3 -> ReqArgs("/tasks/" \o IdStr(taskId) \o "/assignees/bulk", "POST",
                        JsonBody(assignees),
                        ("authorization" :> ("Bearer " \o Template(token))))

bulkAssignUsersToTask_retry(n, error) ==
  CASE n = 1 -> InstanceOf(error, "VikunjaError")
                /\ (error.statusCode = 401 \/ error.statusCode = 403)
    [] n = 2 -> InstanceOf(error, "VikunjaError")
                /\ (error.statusCode = 401 \/ error.statusCode = 403)

\* Variant: the innermost catch block throws the label family's error.
bulkAssignUsersToTask_final_label(finalError) ==
  IF InstanceOf(finalError, "VikunjaAuthenticationError")
  THEN LabelAuthenticationError(LabelPrefix \o finalError.message, finalError.endpoint,
                                finalError.method, finalError.statusCode, finalError.response)
  ELSE finalError

bulkAssignUsersToTask_final(finalError) ==
  IF InstanceOf(finalError, "VikunjaAuthenticationError")
  THEN AssigneeAuthenticationError(AssigneePrefix \o finalError.message, finalError.endpoint,
                                   finalError.method, finalError.statusCode, finalError.response)
  ELSE finalError

\* ---- removeUserFromTask(taskId, userId) ----
\* Variant: the last retry goes to the assignee collection, without the user id.
removeUserFromTask_request_wrongPath(n, taskId, userId, token) ==
  CASE n = 1 -> ReqArgs("/tasks/" \o IdStr(taskId) \o "/assignees/" \o IdStr(userId), "DELETE",
                        NoBody, NoHeaders)
    [] n = 2 -> ReqArgs("/tasks/" \o IdStr(taskId) \o "/assignees/" \o IdStr(userId), "DELETE",
                        NoBody, ("X-API-Token" :> OrEmpty(token)))
    [] n = 3 -> ReqArgs("/tasks/" \o IdStr(taskId) \o "/assignees", "DELETE",
                        NoBody, ("authorization" :> ("Bearer " \o Template(token))))

removeUserFromTask_request(n, taskId, userId, token) ==
  CASE n = 1 -> ReqArgs("/tasks/" \o IdStr(taskId) \o "/assignees/" \o IdStr(userId), "DELETE",
                        NoBody, NoHeaders)
    [] n = 2 -> ReqArgs("/tasks/" \o IdStr(taskId) \o "/assignees/" \o IdStr(userId), "DELETE",
                        NoBody, ("X-API-Token" :> OrEmpty(token)))
    [] n = 3 -> ReqArgs("/tasks/" \o IdStr(taskId) \o "/assignees/" \o IdStr(userId), "DELETE",
                        NoBody, ("authorization" :> ("Bearer " \o Template(token))))

removeUserFromTask_retry(n, error) ==
  CASE n = 1 -> InstanceOf(error, "VikunjaError")
                /\ (error.statusCode = 401 \/ error.statusCode = 403)
    [] n = 2 -> InstanceOf(error, "VikunjaError")
                /\ (error.statusCode = 401 \/ error.statusCode = 403)

\* Variant: the last catch block rethrows the error of attempt 3 as it is.
removeUserFromTask_final_plain(finalError) == finalError

removeUserFromTask_final(finalError) ==
  IF InstanceOf(finalError, "VikunjaAuthenticationError")
  THEN AssigneeAuthenticationError(AssigneePrefix \o finalError.message, finalError.endpoint,
                                   finalError.method, finalError.statusCode, finalError.response)
  ELSE finalError

\* ---- updateTaskLabels(taskId, labels) ----
updateTaskLabels_request(n, taskId, labels, token) ==
  CASE n = 1 -> ReqArgs("/tasks/" \o IdStr(taskId) \o "/labels/bulk", "POST",
                        JsonBody(labels), NoHeaders)
    [] n = 2 -> ReqArgs("/tasks/" \o IdStr(taskId) \o "/labels/bulk", "POST",
                        JsonBody(labels), ("X-API-Token" :> OrEmpty(token)))
    [] n = 3 -> ReqArgs("/tasks/" \o IdStr(taskId) \o "/labels/bulk", "POST",
                        JsonBody(labels), ("authorization" :> ("Bearer " \o Template(token))))

\* Variant: the catch blocks test for status 401 only.
updateTaskLabels_retry_only401(n, error) ==
  CASE n = 1 -> InstanceOf(error, "VikunjaError") /\ error.statusCode = 401
    [] n = 2 -> InstanceOf(error, "VikunjaError") /\ error.statusCode = 401

updateTaskLabels_retry(n, error) ==
  CASE n = 1 -> InstanceOf(error, "VikunjaError")
                /\ (error.statusCode = 401 \/ error.statusCode = 403)
    [] n = 2 -> InstanceOf(error, "VikunjaError")
                /\ (error.statusCode = 401 \/ error.statusCode = 403)

updateTaskLabels_final(finalError) ==
  IF InstanceOf(finalError, "VikunjaAuthenticationError")
  THEN LabelAuthenticationError(LabelPrefix \o finalError.message, finalError.endpoint,
                                finalError.method, finalError.statusCode, finalError.response)
  ELSE finalError

\* ---- addLabelToTask(taskId, labelTask) ----
\* Variant: the alternate header carries the token with the Bearer prefix.
addLabelToTask_request_bearerToken(n, taskId, labelTask, token) ==
  CASE n = 1 -> ReqArgs("/tasks/" \o IdStr(taskId) \o "/labels", "PUT",
                        JsonBody(labelTask), NoHeaders)
    [] n = 2 -> ReqArgs("/tasks/" \o IdStr(taskId) \o "/labels", "PUT",
                        JsonBody(labelTask), ("X-API-Token" :> ("Bearer " \o OrEmpty(token))))
    [] n = 3 -> ReqArgs("/tasks/" \o IdStr(taskId) \o "/labels", "PUT",
                        JsonBody(labelTask), ("authorization" :> ("Bearer " \o Template(token))))

addLabelToTask_request(n, taskId, labelTask, token) ==
  CASE n = 1 -> ReqArgs("/tasks/" \o IdStr(taskId) \o "/labels", "PUT",
                        JsonBody(labelTask), NoHeaders)
    [] n = 2 -> ReqArgs("/tasks/" \o IdStr(taskId) \o "/labels", "PUT",
                        JsonBody(labelTask), ("X-API-Token" :> OrEmpty(token)))
    [] n = 3 -> ReqArgs("/tasks/" \o IdStr(taskId) \o "/labels", "PUT",
                        JsonBody(labelTask), ("authorization" :> ("Bearer " \o Template(token))))

\* Variant: addLabelToTask also retries after a failure of the network.
addLabelToTask_retry_alsoNetwork(n, error) ==
  CASE n = 1 -> InstanceOf(error, "VikunjaError")
                /\ (error.statusCode = 401 \/ error.statusCode = 403 \/ error.statusCode = 0)
    [] n = 2 -> InstanceOf(error, "VikunjaError")
                /\ (error.statusCode = 401 \/ error.statusCode = 403 \/ error.statusCode = 0)

addLabelToTask_retry(n, error) ==
  CASE n = 1 -> InstanceOf(error, "VikunjaError")
                /\ (error.statusCode = 401 \/ error.statusCode = 403)
    [] n = 2 -> InstanceOf(error, "VikunjaError")
                /\ (error.statusCode = 401 \/ error.statusCode = 403)

\* Variant: the innermost catch block wraps every VikunjaError.
addLabelToTask_final_always(finalError) ==
  IF InstanceOf(finalError, "VikunjaError")
  THEN LabelAuthenticationError(LabelPrefix \o finalError.message, finalError.endpoint,
                                finalError.method, finalError.statusCode, finalError.response)
  ELSE finalError

addLabelToTask_final(finalError) ==
  IF InstanceOf(finalError, "VikunjaError")
     /\ (finalError.statusCode = 401 \/ finalError.statusCode = 403)
  THEN LabelAuthenticationError(LabelPrefix \o finalError.message, finalError.endpoint,
                                finalError.method, finalError.statusCode, finalError.response)
  ELSE finalError

\* ---- removeLabelFromTask(taskId, labelId) ----
removeLabelFromTask_request(n, taskId, labelId, token) ==
  CASE n = 1 -> ReqArgs("/tasks/" \o IdStr(taskId) \o "/labels/" \o IdStr(labelId), "DELETE",
                        NoBody, NoHeaders)
    [] n = 2 -> ReqArgs("/tasks/" \o IdStr(taskId) \o "/labels/" \o IdStr(labelId), "DELETE",
                        NoBody, ("X-API-Token" :> OrEmpty(token)))
    [] n = 3 -> ReqArgs("/tasks/" \o IdStr(taskId) \o "/labels/" \o IdStr(labelId), "DELETE",
                        NoBody, ("authorization" :> ("Bearer " \o Template(token))))

\* Variant: the catch blocks retry after any VikunjaError.
removeLabelFromTask_retry_anyError(n, error) ==
  CASE n = 1 -> InstanceOf(error, "VikunjaError")
    [] n = 2 -> InstanceOf(error, "VikunjaError")

removeLabelFromTask_retry(n, error) ==
  CASE n = 1 -> InstanceOf(error, "VikunjaError")
                /\ (error.statusCode = 401 \/ error.statusCode = 403)
    [] n = 2 -> InstanceOf(error, "VikunjaError")
                /\ (error.statusCode = 401 \/ error.statusCode = 403)

removeLabelFromTask_final(finalError) ==
  IF InstanceOf(finalError, "VikunjaError")
     /\ (finalError.statusCode = 401 \/ finalError.statusCode = 403)
  THEN LabelAuthenticationError(LabelPrefix \o finalError.message, finalError.endpoint,
                                finalError.method, finalError.statusCode, finalError.response)
  ELSE finalError

(***************************************************************************)
(* The inputs of the operations.  An id argument is kept as [id |-> n]; a  *)
(* payload argument is the caller's object, passed through as the body.    *)
(***************************************************************************)
NoArg == [none |-> TRUE]

IdArgs == {[id |-> n] : n \in Ids}

BulkAssigneesInputs == {[user_ids |-> <<u>>] : u \in Ids}

LabelTaskBulkInputs == {[labels |-> <<[id |-> l]>>] : l \in Ids}

TaskLabelInputs == {[label_id |-> l] : l \in Ids}

AssigneeOps == {"assignUserToTask", "bulkAssignUsersToTask", "removeUserFromTask"}

LabelOps == {"updateTaskLabels", "addLabelToTask", "removeLabelFromTask"}

RetriedOps == AssigneeOps \cup LabelOps

\* The n-th request of operation op.
CascadeRequest(op, n, taskId, arg, token) ==
  CASE op = "assignUserToTask" -> assignUserToTask_request(n, taskId, arg.id, token)
    [] op = "bulkAssignUsersToTask" -> bulkAssignUsersToTask_request(n, taskId, arg, token)
    [] op = "removeUserFromTask" -> removeUserFromTask_request(n, taskId, arg.id, token)
    [] op = "updateTaskLabels" -> updateTaskLabels_request(n, taskId, arg, token)
    [] op = "addLabelToTask" -> addLabelToTask_request(n, taskId, arg, token)
    [] op = "removeLabelFromTask" -> removeLabelFromTask_request(n, taskId, arg.id, token)

\* Whether operation op retries after the error of attempt n (n = 1, 2).
CascadeRetry(op, n, error) ==
  CASE op = "assignUserToTask" -> assignUserToTask_retry(n, error)
    [] op = "bulkAssignUsersToTask" -> bulkAssignUsersToTask_retry(n, error)
    [] op = "removeUserFromTask" -> removeUserFromTask_retry(n, error)
    [] op = "updateTaskLabels" -> updateTaskLabels_retry(n, error)
    [] op = "addLabelToTask" -> addLabelToTask_retry(n, error)
    [] op = "removeLabelFromTask" -> removeLabelFromTask_retry(n, error)

\* What operation op throws for the error of attempt 3.
CascadeFinal(op, finalError) ==
  CASE op = "assignUserToTask" -> assignUserToTask_final(finalError)
    [] op = "bulkAssignUsersToTask" -> bulkAssignUsersToTask_final(finalError)
    [] op = "removeUserFromTask" -> removeUserFromTask_final(finalError)
    [] op = "updateTaskLabels" -> updateTaskLabels_final(finalError)
    [] op = "addLabelToTask" -> addLabelToTask_final(finalError)
    [] op = "removeLabelFromTask" -> removeLabelFromTask_final(finalError)

(***************************************************************************)
(* One logical call: where it stands (idle, awaiting the answer to its     *)
(* request in flight, settled), the try block it is in (attempt), the      *)
(* requests it has sent, the result of each answered request, and the      *)
(* outcome of its promise.  Two fields are history only: answers, what the *)
(* network gave to each request, and prev, how the call before this one on *)
(* the same client ended ("none" when there was none).                     *)
(***************************************************************************)
Pending == [state |-> "pending", value |-> NoValue, error |-> NoError]

Resolved(value) == [state |-> "resolved", value |-> value, error |-> NoError]

Rejected(error) == [state |-> "rejected", value |-> NoValue, error |-> error]

IdleCall ==
  [pc |-> "idle", op |-> "none", taskId |-> 0, arg |-> NoArg, attempt |-> 0,
   reqs |-> <<>>, results |-> <<>>, answers |-> <<>>, outcome |-> Pending,
   prev |-> "none"]

\* The call as it stands after sending its first request.
Begin(op, taskId, arg, req) ==
  [pc |-> "await", op |-> op, taskId |-> taskId, arg |-> arg, attempt |-> 1,
   reqs |-> <<req>>, results |-> <<>>, answers |-> <<>>, outcome |-> Pending,
   prev |-> "none"]

\* How a settled call ended, for the history: resolved on a fallback header,
\* exhausted after three requests, or anything else.
Ending(call) ==
  IF call.outcome.state = "resolved" /\ Len(call.reqs) >= 2 THEN "fallback"
  ELSE IF call.outcome.state = "rejected" /\ Len(call.reqs) = 3
          /\ call.outcome.error.cls \in {"AssigneeAuthenticationError",
                                         "LabelAuthenticationError"}
  THEN "exhausted"
  ELSE "plain"

\* Variant: the request is awaited but its value is not returned.
Resolve_withoutValue(call, value) ==
  [call EXCEPT !.pc = "settled", !.outcome = Resolved(NoValue)]

\* Variant: the value handed back says whether a fallback header was needed.
Resolve_flagged(call, value) ==
  [call EXCEPT !.pc = "settled",
               !.outcome = Resolved([data |-> value.data, fallback |-> call.attempt > 1])]

\* `return await this.request(...)` with the request fulfilled.
Resolve(call, value) == [call EXCEPT !.pc = "settled", !.outcome = Resolved(value)]

\* `throw error` out of the method.
Reject(call, error) == [call EXCEPT !.pc = "settled", !.outcome = Rejected(error)]

\* Entering the next try block: its request is sent and awaited.
Issue(call, req) ==
  [call EXCEPT !.pc = "await", !.attempt = @ + 1, !.reqs = Append(@, req)]

\* Variant: a budget of two attempts, the second catch block raising the
\* specialized error.
CascadeStep_twoAttempts(call, res, cl) ==
  LET seen == [call EXCEPT !.results = Append(@, res)]
      next(n) == Send(cl, CascadeRequest(call.op, n, call.taskId, call.arg, cl.token))
  IN  IF res.ok
      THEN Resolve(seen, res.value)
      ELSE CASE call.attempt = 1 ->
                  IF CascadeRetry(call.op, 1, res.error)
                  THEN Issue(seen, next(2))
                  ELSE Reject(seen, res.error)
             [] call.attempt >= 2 -> Reject(seen, CascadeFinal(call.op, res.error))

\* Variant: the innermost catch block retries again on 401/403.
CascadeStep_unbounded(call, res, cl) ==
  LET seen == [call EXCEPT !.results = Append(@, res)]
      next(n) == Send(cl, CascadeRequest(call.op, n, call.taskId, call.arg, cl.token))
  IN  IF res.ok
      THEN Resolve(seen, res.value)
      ELSE CASE call.attempt = 1 ->
                  IF CascadeRetry(call.op, 1, res.error)
                  THEN Issue(seen, next(2))
                  ELSE Reject(seen, res.error)
             [] call.attempt = 2 ->
                  IF CascadeRetry(call.op, 2, res.error)
                  THEN Issue(seen, next(3))
                  ELSE Reject(seen, res.error)
             [] call.attempt >= 3 ->
                  IF CascadeRetry(call.op, 2, res.error)
                  THEN Issue(seen, next(3))
                  ELSE Reject(seen, CascadeFinal(call.op, res.error))

\* The method's continuation when the request of the current attempt has
\* given res: the nested try/catch blocks of a retried operation.
CascadeStep(call, res, cl) ==
  LET seen == [call EXCEPT !.results = Append(@, res)]
      next(n) == Send(cl, CascadeRequest(call.op, n, call.taskId, call.arg, cl.token))
  IN  IF res.ok
      THEN Resolve(seen, res.value)
      ELSE CASE call.attempt = 1 ->
                  IF CascadeRetry(call.op, 1, res.error)
                  THEN Issue(seen, next(2))
                  ELSE Reject(seen, res.error)
             [] call.attempt = 2 ->
                  IF CascadeRetry(call.op, 2, res.error)
                  THEN Issue(seen, next(3))
                  ELSE Reject(seen, res.error)
             [] call.attempt = 3 -> Reject(seen, CascadeFinal(call.op, res.error))

Last(seq) == seq[Len(seq)]

(***************************************************************************)
(* Actions.  Calling an operation sends its first request; the answer of   *)
(* the network to the request in flight resumes the method, which settles  *)
(* or sends the next request; the caller takes the outcome of a settled    *)
(* call, after which the slot may hold another call on the same client.    *)
(***************************************************************************)
\* The call once the network has answered r to its request in flight.
Answered(call, r) == [call EXCEPT !.answers = Append(@, r)]

\* A method is called and hands its first request req to the network.
StartWith(c, op, taskId, arg, req) ==
  /\ calls[c].pc = "idle"
  /\ calls' = [calls EXCEPT ![c] = [Begin(op, taskId, arg, req) EXCEPT !.prev = calls[c].prev]]
  /\ UNCHANGED client

\* Variant: the client remembers that a fallback header worked and the next
\* call starts with it.
StartCall_stickyHeader(c, op, taskId, arg) ==
  StartWith(c, op, taskId, arg,
            Send(client, CascadeRequest(op, IF calls[c].prev = "fallback" THEN 2 ELSE 1,
                                        taskId, arg, client.token)))

\* A retried operation is called.
StartCall(c, op, taskId, arg) ==
  StartWith(c, op, taskId, arg, Send(client, CascadeRequest(op, 1, taskId, arg, client.token)))

\* Variant: the third request is never taken up again: its promise is
\* awaited without a continuation.
ResumeWith_lostThird(c, op, r) ==
  /\ calls[c].pc = "await"
  /\ calls[c].op = op
  /\ calls[c].attempt < 3
  /\ calls' = [calls EXCEPT
                 ![c] = Answered(CascadeStep(calls[c], RequestResult(Last(calls[c].reqs), r),
                                             client), r)]
  /\ UNCHANGED client

\* Variant: the attempt counter is kept on the client, shared by the calls
\* in flight, instead of in the frame of each call.
ResumeWith_sharedAttempt(c, op, r) ==
  LET furthest == CHOOSE n \in {calls[d].attempt : d \in DOMAIN calls} :
                    \A d \in DOMAIN calls : calls[d].attempt <= n
      frame == [calls[c] EXCEPT !.attempt = furthest]
  IN  /\ calls[c].pc = "await"
      /\ calls[c].op = op
      /\ calls' = [calls EXCEPT
                     ![c] = Answered(CascadeStep(frame, RequestResult(Last(calls[c].reqs), r),
                                                 client), r)]
      /\ UNCHANGED client

\* The network answers r to the request in flight of a retried operation.
ResumeWith(c, op, r) ==
  /\ calls[c].pc = "await"
  /\ calls[c].op = op
  /\ calls' = [calls EXCEPT
                 ![c] = Answered(CascadeStep(calls[c], RequestResult(Last(calls[c].reqs), r),
                                             client), r)]
  /\ UNCHANGED client

ResumeCall(c, op) == \E r \in Responses : ResumeWith(c, op, r)

assignUserToTask_Call(c) ==
  \E taskId \in Ids, userId \in IdArgs : StartCall(c, "assignUserToTask", taskId, userId)

assignUserToTask_Resume(c) == ResumeCall(c, "assignUserToTask")

bulkAssignUsersToTask_Call(c) ==
  \E taskId \in Ids, assignees \in BulkAssigneesInputs :
    StartCall(c, "bulkAssignUsersToTask", taskId, assignees)

bulkAssignUsersToTask_Resume(c) == ResumeCall(c, "bulkAssignUsersToTask")

removeUserFromTask_Call(c) ==
  \E taskId \in Ids, userId \in IdArgs : StartCall(c, "removeUserFromTask", taskId, userId)

removeUserFromTask_Resume(c) == ResumeCall(c, "removeUserFromTask")

updateTaskLabels_Call(c) ==
  \E taskId \in Ids, labels \in LabelTaskBulkInputs :
    StartCall(c, "updateTaskLabels", taskId, labels)

updateTaskLabels_Resume(c) == ResumeCall(c, "updateTaskLabels")

addLabelToTask_Call(c) ==
  \E taskId \in Ids, labelTask \in TaskLabelInputs :
    StartCall(c, "addLabelToTask", taskId, labelTask)

addLabelToTask_Resume(c) == ResumeCall(c, "addLabelToTask")

removeLabelFromTask_Call(c) ==
  \E taskId \in Ids, labelId \in IdArgs : StartCall(c, "removeLabelFromTask", taskId, labelId)

removeLabelFromTask_Resume(c) == ResumeCall(c, "removeLabelFromTask")

(***************************************************************************)
(* The operations that are not retried.  Each is a single                  *)
(* `return this.request(...)`: the promise of the method is the promise of *)
(* its one request.  uploadTaskAttachment calls fetch itself.              *)
(***************************************************************************)
\* The id slot of a call whose operation takes no leading id.
NoId == 0

\* A FormData body: handed to fetch as it is.
FormBody(formData) == [present |-> TRUE, multipart |-> formData]

\* GetTasksParams objects: none; the scenario of the specification; the three
\* of the tests; two entries in the other order; an entry left undefined.
GetTasksParamsInputs ==
  { NoParams,
    <<NumParam("page", 1), NumParam("per_page", 10), StrParam("s", "x"),
      StrParam("sort_by", "title"), StrParam("order_by", "asc"),
      StrParam("filter", "done equals false")>>,
    <<NumParam("page", 1), NumParam("per_page", 10), StrParam("s", "search term"),
      StrParam("sort_by", "title"), StrParam("order_by", "asc"),
      StrParam("filter", "done equals false")>>,
    <<StrParam("filter", "done equals false and priority equals 1")>>,
    <<StrParam("filter", "due_date equals "), BoolParam("filter_include_nulls", TRUE)>>,
    <<NumParam("per_page", 10), NumParam("page", 1)>>,
    <<NumParam("page", 1), UndefinedParam("s"), NumParam("per_page", 10)>> }

\* {page?, per_page?} objects of the other list operations.
PageParamsInputs == {NoParams, <<NumParam("page", 1), NumParam("per_page", 10)>>}

TaskInputs == [title : Payloads]

TaskCommentInputs == [comment : Payloads]

RelationKinds == {"subtask", "related"}

TaskRelationInputs == [other_task_id : Ids, relation_kind : RelationKinds]

TaskBulkOperationInputs == {[task_ids |-> <<t>>, field |-> "done", value |-> "true"] : t \in Ids}

BulkTaskInputs == {[task_ids |-> <<t>>, title |-> v] : t \in Ids, v \in Payloads}

FormDataInputs == {"file1"}

\* convertParams(params): the parameters go through as they are given.
convertParams(params) == params

\* Variant: a one-line method given the retry of the cascade, sending its
\* request again after a 401/403.
SimpleStep_retrying(call, res) ==
  LET seen == [call EXCEPT !.results = Append(@, res)]
  IN  IF res.ok
      THEN Resolve(seen, res.value)
      ELSE IF call.attempt < 3 /\ res.error.statusCode \in {401, 403}
      THEN Issue(seen, Last(call.reqs))
      ELSE Reject(seen, res.error)

\* The continuation of `return this.request(...)`: the method settles as its
\* one request did.
SimpleStep(call, res) ==
  LET seen == [call EXCEPT !.results = Append(@, res)]
  IN  IF res.ok THEN Resolve(seen, res.value) ELSE Reject(seen, res.error)

\* A non-retried operation calls request(path, method, body, options).
SimpleCall(c, op, id, arg, args) == StartWith(c, op, id, arg, Send(client, args))

\* Variant: getAllTasks without the options argument.
getAllTasks_Call_noParams(c) ==
  \E params \in GetTasksParamsInputs :
    SimpleCall(c, "getAllTasks", NoId, [params |-> params],
               ReqArgs("/tasks", "GET", NoBody, NoHeaders))

getAllTasks_Call(c) ==
  \E params \in GetTasksParamsInputs :
    SimpleCall(c, "getAllTasks", NoId, [params |-> params],
               WithParams(ReqArgs("/tasks", "GET", NoBody, NoHeaders), params))

getProjectTasks_Call(c) ==
  \E projectId \in Ids, params \in PageParamsInputs :
    SimpleCall(c, "getProjectTasks", projectId, [params |-> params],
               WithParams(ReqArgs("/projects/" \o IdStr(projectId) \o "/tasks", "GET",
                                  NoBody, NoHeaders), params))

\* Variant: createTask sent with POST, like the update operations.
createTask_Call_post(c) ==
  \E projectId \in Ids, task \in TaskInputs :
    SimpleCall(c, "createTask", projectId, task,
               ReqArgs("/projects/" \o IdStr(projectId) \o "/tasks", "POST",
                       JsonBody(task), NoHeaders))

createTask_Call(c) ==
  \E projectId \in Ids, task \in TaskInputs :
    SimpleCall(c, "createTask", projectId, task,
               ReqArgs("/projects/" \o IdStr(projectId) \o "/tasks", "PUT",
                       JsonBody(task), NoHeaders))

getTask_Call(c) ==
  \E taskId \in Ids :
    SimpleCall(c, "getTask", taskId, NoArg,
               ReqArgs("/tasks/" \o IdStr(taskId), "GET", NoBody, NoHeaders))

updateTask_Call(c) ==
  \E taskId \in Ids, task \in TaskInputs :
    SimpleCall(c, "updateTask", taskId, task,
               ReqArgs("/tasks/" \o IdStr(taskId), "POST", JsonBody(task), NoHeaders))

deleteTask_Call(c) ==
  \E taskId \in Ids :
    SimpleCall(c, "deleteTask", taskId, NoArg,
               ReqArgs("/tasks/" \o IdStr(taskId), "DELETE", NoBody, NoHeaders))

markTaskDone_Call(c) ==
  \E taskId \in Ids :
    SimpleCall(c, "markTaskDone", taskId, NoArg,
               ReqArgs("/tasks/" \o IdStr(taskId) \o "/done", "POST", NoBody, NoHeaders))

markTaskUndone_Call(c) ==
  \E taskId \in Ids :
    SimpleCall(c, "markTaskUndone", taskId, NoArg,
               ReqArgs("/tasks/" \o IdStr(taskId) \o "/undone", "POST", NoBody, NoHeaders))

getTaskAssignees_Call(c) ==
  \E taskId \in Ids, params \in PageParamsInputs :
    SimpleCall(c, "getTaskAssignees", taskId, [params |-> params],
               WithParams(ReqArgs("/tasks/" \o IdStr(taskId) \o "/assignees", "GET",
                                  NoBody, NoHeaders), params))

getTaskComments_Call(c) ==
  \E taskId \in Ids :
    SimpleCall(c, "getTaskComments", taskId, NoArg,
               ReqArgs("/tasks/" \o IdStr(taskId) \o "/comments", "GET", NoBody, NoHeaders))

createTaskComment_Call(c) ==
  \E taskId \in Ids, comment \in TaskCommentInputs :
    SimpleCall(c, "createTaskComment", taskId, comment,
               ReqArgs("/tasks/" \o IdStr(taskId) \o "/comments", "PUT",
                       JsonBody(comment), NoHeaders))

getTaskComment_Call(c) ==
  \E taskId \in Ids, commentId \in Ids :
    SimpleCall(c, "getTaskComment", taskId, [id |-> commentId],
               ReqArgs("/tasks/" \o IdStr(taskId) \o "/comments/" \o IdStr(commentId), "GET",
                       NoBody, NoHeaders))

updateTaskComment_Call(c) ==
  \E taskId \in Ids, commentId \in Ids, comment \in TaskCommentInputs :
    SimpleCall(c, "updateTaskComment", taskId, [id |-> commentId, payload |-> comment],
               ReqArgs("/tasks/" \o IdStr(taskId) \o "/comments/" \o IdStr(commentId), "POST",
                       JsonBody(comment), NoHeaders))

deleteTaskComment_Call(c) ==
  \E taskId \in Ids, commentId \in Ids :
    SimpleCall(c, "deleteTaskComment", taskId, [id |-> commentId],
               ReqArgs("/tasks/" \o IdStr(taskId) \o "/comments/" \o IdStr(commentId),
                       "DELETE", NoBody, NoHeaders))

createTaskRelation_Call(c) ==
  \E taskId \in Ids, relation \in TaskRelationInputs :
    SimpleCall(c, "createTaskRelation", taskId, relation,
               ReqArgs("/tasks/" \o IdStr(taskId) \o "/relations", "PUT",
                       JsonBody(relation), NoHeaders))

deleteTaskRelation_Call(c) ==
  \E taskId \in Ids, relationKind \in RelationKinds, otherTaskId \in Ids :
    SimpleCall(c, "deleteTaskRelation", taskId, [id |-> otherTaskId, kind |-> relationKind],
               ReqArgs("/tasks/" \o IdStr(taskId) \o "/relations/" \o relationKind \o "/"
                         \o IdStr(otherTaskId),
                       "DELETE", NoBody, NoHeaders))

bulkUpdateTasks_Call(c) ==
  \E operation \in TaskBulkOperationInputs :
    SimpleCall(c, "bulkUpdateTasks", NoId, operation,
               ReqArgs("/tasks/bulk", "POST", JsonBody(operation), NoHeaders))

getTaskAttachments_Call(c) ==
  \E taskId \in Ids, params \in PageParamsInputs :
    SimpleCall(c, "getTaskAttachments", taskId, [params |-> params],
               WithParams(ReqArgs("/tasks/" \o IdStr(taskId) \o "/attachments", "GET",
                                  NoBody, NoHeaders), params))

getTaskAttachment_Call(c) ==
  \E taskId \in Ids, attachmentId \in Ids :
    SimpleCall(c, "getTaskAttachment", taskId, [id |-> attachmentId],
               WithResponseType(
                 ReqArgs("/tasks/" \o IdStr(taskId) \o "/attachments/" \o IdStr(attachmentId),
                         "GET", NoBody, NoHeaders), "blob"))

deleteTaskAttachment_Call(c) ==
  \E taskId \in Ids, attachmentId \in Ids :
    SimpleCall(c, "deleteTaskAttachment", taskId, [id |-> attachmentId],
               ReqArgs("/tasks/" \o IdStr(taskId) \o "/attachments/" \o IdStr(attachmentId),
                       "DELETE", NoBody, NoHeaders))

updateTasksAcrossProjects_Call(c) ==
  \E bulkTask \in BulkTaskInputs :
    SimpleCall(c, "updateTasksAcrossProjects", NoId, bulkTask,
               ReqArgs("/tasks/bulk", "POST", JsonBody(bulkTask), NoHeaders))

getTaskLabels_Call(c) ==
  \E taskId \in Ids, params \in PageParamsInputs :
    SimpleCall(c, "getTaskLabels", taskId, [params |-> params],
               WithParams(ReqArgs("/tasks/" \o IdStr(taskId) \o "/labels", "GET",
                                  NoBody, NoHeaders), convertParams(params)))

\* The operations above.
RequestOps ==
  {"getAllTasks", "getProjectTasks", "createTask", "getTask", "updateTask", "deleteTask",
   "markTaskDone", "markTaskUndone", "getTaskAssignees", "getTaskComments",
   "createTaskComment", "getTaskComment", "updateTaskComment", "deleteTaskComment",
   "createTaskRelation", "deleteTaskRelation", "bulkUpdateTasks", "getTaskAttachments",
   "getTaskAttachment", "deleteTaskAttachment", "updateTasksAcrossProjects", "getTaskLabels"}

\* The network answers the one request of a non-retried operation.
Respond(c) ==
  /\ calls[c].pc = "await"
  /\ calls[c].op \in RequestOps
  /\ \E r \in Responses :
       calls' = [calls EXCEPT
                   ![c] = Answered(SimpleStep(calls[c], RequestResult(Last(calls[c].reqs), r)),
                                   r)]
  /\ UNCHANGED client

\* Variant: the Authorization header is set without the test of this.token.
uploadTaskAttachment_request_unguarded(taskId, formData, cl) ==
  [url |-> BuildUrl(cl, "/tasks/" \o IdStr(taskId) \o "/attachments"),
   path |-> "/tasks/" \o IdStr(taskId) \o "/attachments",
   method |-> "PUT", body |-> FormBody(formData),
   headers |-> ("Authorization" :> ("Bearer " \o Template(cl.token))),
   responseType |-> "json"]

\* uploadTaskAttachment: the url, the headers and the fetch options.
uploadTaskAttachment_request(taskId, formData, cl) ==
  [url |-> BuildUrl(cl, "/tasks/" \o IdStr(taskId) \o "/attachments"),
   path |-> "/tasks/" \o IdStr(taskId) \o "/attachments",
   method |-> "PUT", body |-> FormBody(formData),
   headers |-> IF Truthy(cl.token)
               THEN ("Authorization" :> ("Bearer " \o Template(cl.token)))
               ELSE NoHeaders,
   responseType |-> "json"]

\* What fetch can answer to an upload: also a 2xx whose body is not JSON and
\* an error body without a message.
UploadResponses ==
  Responses
  \cup [kind : {"http"}, status : OkStatuses, json : {FALSE}, body : {NoJson}]
  \cup [kind : {"http"}, status : ErrorStatuses, json : {TRUE}, body : {[message |-> ""]}]

\* The message of the error with which response.json() rejects.
JsonParseMessage == "Invalid JSON"

\* Variant: only 401 is classified as an authentication error.
uploadTaskAttachment_result_only401(taskId, resp) ==
  LET endpoint == "/tasks/" \o IdStr(taskId) \o "/attachments"
      caught(message) ==
        Failure(VikunjaError(OrElse(message, "Network error"), endpoint, "PUT", 0,
                             [message |-> OrElse(message, "Network error")]))
  IN  IF resp.kind = "neterr"
      THEN caught(resp.message)
      ELSE IF ~IsOk(resp.status)
      THEN LET errorResponse ==
                 IF resp.json THEN resp.body ELSE [message |-> FallbackMessage(resp.status)]
               errorMessage == OrElse(errorResponse.message, FallbackMessage(resp.status))
           IN  IF resp.status = 401
               THEN Failure(VikunjaAuthenticationError(errorMessage, endpoint, "PUT",
                                                       resp.status, errorResponse))
               ELSE Failure(VikunjaError(errorMessage, endpoint, "PUT", resp.status,
                                         errorResponse))
      ELSE IF resp.json
      THEN Success(resp.body)
      ELSE caught(JsonParseMessage)

\* Variant: the catch block passes error.message on without a default, and
\* the error message is read off the body without a fallback.
uploadTaskAttachment_result_rawMessage(taskId, resp) ==
  LET endpoint == "/tasks/" \o IdStr(taskId) \o "/attachments"
      caught(message) ==
        Failure(VikunjaError(message, endpoint, "PUT", 0, [message |-> message]))
  IN  IF resp.kind = "neterr"
      THEN caught(resp.message)
      ELSE IF ~IsOk(resp.status)
      THEN LET errorResponse ==
                 IF resp.json THEN resp.body ELSE [message |-> FallbackMessage(resp.status)]
               errorMessage == errorResponse.message
           IN  IF resp.status = 401 \/ resp.status = 403
               THEN Failure(VikunjaAuthenticationError(errorMessage, endpoint, "PUT",
                                                       resp.status, errorResponse))
               ELSE Failure(VikunjaError(errorMessage, endpoint, "PUT", resp.status,
                                         errorResponse))
      ELSE IF resp.json
      THEN Success(resp.body)
      ELSE caught(JsonParseMessage)

\* uploadTaskAttachment from the answer of fetch on: the classification of
\* the response and the catch block.
uploadTaskAttachment_result(taskId, resp) ==
  LET endpoint == "/tasks/" \o IdStr(taskId) \o "/attachments"
      caught(message) ==
        Failure(VikunjaError(OrElse(message, "Network error"), endpoint, "PUT", 0,
                             [message |-> OrElse(message, "Network error")]))
  IN  IF resp.kind = "neterr"
      THEN caught(resp.message)
      ELSE IF ~IsOk(resp.status)
      THEN LET errorResponse ==
                 IF resp.json THEN resp.body ELSE [message |-> FallbackMessage(resp.status)]
               errorMessage == OrElse(errorResponse.message, FallbackMessage(resp.status))
           IN  IF resp.status = 401 \/ resp.status = 403
               THEN Failure(VikunjaAuthenticationError(errorMessage, endpoint, "PUT",
                                                       resp.status, errorResponse))
               ELSE Failure(VikunjaError(errorMessage, endpoint, "PUT", resp.status,
                                         errorResponse))
      ELSE IF resp.json
      THEN Success(resp.body)
      ELSE caught(JsonParseMessage)

uploadTaskAttachment_Call(c) ==
  \E taskId \in Ids, formData \in FormDataInputs :
    StartWith(c, "uploadTaskAttachment", taskId, [form |-> formData],
              uploadTaskAttachment_request(taskId, formData, client))

uploadTaskAttachment_Resume(c) ==
  /\ calls[c].pc = "await"
  /\ calls[c].op = "uploadTaskAttachment"
  /\ \E r \in UploadResponses :
       calls' = [calls EXCEPT
                   ![c] = Answered(SimpleStep(calls[c],
                                              uploadTaskAttachment_result(calls[c].taskId, r)),
                                   r)]
  /\ UNCHANGED client

\* The caller has awaited the promise: the call is over.
Return(c) ==
  /\ calls[c].pc = "settled"
  /\ calls' = [calls EXCEPT ![c] = IdleCall]
  /\ UNCHANGED client

(***************************************************************************)
(* Two calls of retried operations in flight at once on one client.  The   *)
(* methods are async: between two awaits a call runs alone, and the        *)
(* answers to the requests of the two calls arrive in any order.           *)
(***************************************************************************)
ConcSlots == {1, 2}

\* The answers the network gives here: success, the two authentication
\* statuses, another status and a failure of the network.
ConcResponses ==
  { [kind |-> "http", status |-> 200, json |-> TRUE, body |-> [data |-> "v1"]],
    [kind |-> "http", status |-> 401, json |-> TRUE, body |-> [message |-> "m1"]],
    [kind |-> "http", status |-> 403, json |-> FALSE, body |-> NoJson],
    [kind |-> "http", status |-> 500, json |-> TRUE, body |-> [message |-> "m1"]],
    [kind |-> "neterr", message |-> "ECONNRESET"] }

\* The argument of the call in slot c: calls in two slots differ in their ids.
SlotArg(op, c) ==
  CASE op \in {"assignUserToTask", "removeUserFromTask", "removeLabelFromTask"} -> [id |-> c]
    [] op = "bulkAssignUsersToTask" -> [user_ids |-> <<c>>]
    [] op = "updateTaskLabels" -> [labels |-> <<[id |-> c]>>]
    [] op = "addLabelToTask" -> [label_id |-> c]

\* The caller starts a retried operation on the ids of slot c, whatever the
\* other slot is doing.
SlotCall(c, op) == StartCall(c, op, c, SlotArg(op, c))

InitConc ==
  /\ client \in [baseUrl : {BaseUrl}, token : Tokens]
  /\ calls = [c \in ConcSlots |-> IdleCall]

NextConc ==
  \/ \E c \in DOMAIN calls, op \in RetriedOps : SlotCall(c, op)
  \/ \E c \in DOMAIN calls, op \in RetriedOps, r \in ConcResponses : ResumeWith(c, op, r)

SpecConc == InitConc /\ [][NextConc]_vars

(***************************************************************************)
(* One call after another on one client, the history noting how the call   *)
(* before ended.                                                           *)
(***************************************************************************)
\* The caller has awaited the promise: the call is over, and the history
\* notes how it ended.
ReturnRemembered(c) ==
  /\ calls[c].pc = "settled"
  /\ calls' = [calls EXCEPT ![c] = [IdleCall EXCEPT !.prev = Ending(calls[c])]]
  /\ UNCHANGED client

NextSession ==
  \/ \E c \in DOMAIN calls, op \in RetriedOps : SlotCall(c, op)
  \/ \E c \in DOMAIN calls, op \in RetriedOps : ResumeCall(c, op)
  \/ \E c \in DOMAIN calls : ReturnRemembered(c)

(***************************************************************************)
(* The six retried operations side by side: each is called once, with the  *)
(* ids of slot 1, and at every step the requests in flight of all of them  *)
(* get the same kind of outcome from the request primitive.                *)
(***************************************************************************)
\* The kinds of outcome of one request: the answers of the network, and an
\* error that is no VikunjaError thrown out of the request.
ProtocolOutcomes == ConcResponses \cup {[kind |-> "thrown", message |-> "TypeError"]}

\* What the awaited request req gives for outcome o.
OutcomeOf(req, o) ==
  IF o.kind = "thrown"
  THEN Failure([cls |-> "TypeError", message |-> o.message])
  ELSE RequestResult(req, o)

\* The six operations are called.
StartAll ==
  /\ \A op \in DOMAIN calls : calls[op].pc = "idle"
  /\ calls' = [op \in DOMAIN calls |->
                 Begin(op, 1, SlotArg(op, 1),
                       Send(client, CascadeRequest(op, 1, 1, SlotArg(op, 1), client.token)))]
  /\ UNCHANGED client

\* Every request in flight gets outcome o, and each method runs on to its
\* next await or to its end.
StepAll(o) ==
  /\ \E op \in DOMAIN calls : calls[op].pc = "await"
  /\ calls' = [op \in DOMAIN calls |->
                 IF calls[op].pc = "await"
                 THEN Answered(CascadeStep(calls[op], OutcomeOf(Last(calls[op].reqs), o),
                                           client), o)
                 ELSE calls[op]]
  /\ UNCHANGED client

InitProtocol ==
  /\ client \in [baseUrl : {BaseUrl}, token : Tokens]
  /\ calls = [op \in RetriedOps |-> IdleCall]

NextProtocol ==
  \/ StartAll
  \/ \E o \in ProtocolOutcomes : StepAll(o)

SpecProtocol == InitProtocol /\ [][NextProtocol]_vars

Init ==
  /\ client \in [baseUrl : {BaseUrl}, token : Tokens]
  /\ calls = [c \in CallSlots |-> IdleCall]

Next ==
  \/ \E c \in DOMAIN calls : assignUserToTask_Call(c)
  \/ \E c \in DOMAIN calls : assignUserToTask_Resume(c)
  \/ \E c \in DOMAIN calls : bulkAssignUsersToTask_Call(c)
  \/ \E c \in DOMAIN calls : bulkAssignUsersToTask_Resume(c)
  \/ \E c \in DOMAIN calls : removeUserFromTask_Call(c)
  \/ \E c \in DOMAIN calls : removeUserFromTask_Resume(c)
  \/ \E c \in DOMAIN calls : updateTaskLabels_Call(c)
  \/ \E c \in DOMAIN calls : updateTaskLabels_Resume(c)
  \/ \E c \in DOMAIN calls : addLabelToTask_Call(c)
  \/ \E c \in DOMAIN calls : addLabelToTask_Resume(c)
  \/ \E c \in DOMAIN calls : removeLabelFromTask_Call(c)
  \/ \E c \in DOMAIN calls : removeLabelFromTask_Resume(c)
  \/ \E c \in DOMAIN calls : getAllTasks_Call(c)
  \/ \E c \in DOMAIN calls : getProjectTasks_Call(c)
  \/ \E c \in DOMAIN calls : createTask_Call(c)
  \/ \E c \in DOMAIN calls : getTask_Call(c)
  \/ \E c \in DOMAIN calls : updateTask_Call(c)
  \/ \E c \in DOMAIN calls : deleteTask_Call(c)
  \/ \E c \in DOMAIN calls : markTaskDone_Call(c)
  \/ \E c \in DOMAIN calls : markTaskUndone_Call(c)
  \/ \E c \in DOMAIN calls : getTaskAssignees_Call(c)
  \/ \E c \in DOMAIN calls : getTaskComments_Call(c)
  \/ \E c \in DOMAIN calls : createTaskComment_Call(c)
  \/ \E c \in DOMAIN calls : getTaskComment_Call(c)
  \/ \E c \in DOMAIN calls : updateTaskComment_Call(c)
  \/ \E c \in DOMAIN calls : deleteTaskComment_Call(c)
  \/ \E c \in DOMAIN calls : createTaskRelation_Call(c)
  \/ \E c \in DOMAIN calls : deleteTaskRelation_Call(c)
  \/ \E c \in DOMAIN calls : bulkUpdateTasks_Call(c)
  \/ \E c \in DOMAIN calls : getTaskAttachments_Call(c)
  \/ \E c \in DOMAIN calls : getTaskAttachment_Call(c)
  \/ \E c \in DOMAIN calls : deleteTaskAttachment_Call(c)
  \/ \E c \in DOMAIN calls : updateTasksAcrossProjects_Call(c)
  \/ \E c \in DOMAIN calls : getTaskLabels_Call(c)
  \/ \E c \in DOMAIN calls : Respond(c)
  \/ \E c \in DOMAIN calls : uploadTaskAttachment_Call(c)
  \/ \E c \in DOMAIN calls : uploadTaskAttachment_Resume(c)
  \/ \E c \in DOMAIN calls : Return(c)

Spec == Init /\ [][Next]_vars

(***************************************************************************)
(* Vocabulary of the properties.                                           *)
(***************************************************************************)
\* The attempt failed with an error whose status is 401 or 403.
AuthFailed(res) == ~res.ok /\ res.error.statusCode \in {401, 403}

\* The attempt failed with an error of any other status (0 for a network
\* failure included).
OtherFailed(res) == ~res.ok /\ res.error.statusCode \notin {401, 403}

\* The way a sent request presents the credential.
Variant(req) ==
  IF "X-API-Token" \in DOMAIN req.headers THEN "alternate"
  ELSE IF "authorization" \in DOMAIN req.headers THEN "lowercase"
  ELSE "standard"

VariantOrder == <<"standard", "alternate", "lowercase">>

\* part occurs in whole.
Embeds(whole, part) ==
  \E i \in 1..(Len(whole) + 1) :
    i + Len(part) - 1 <= Len(whole) /\ SubSeq(whole, i, i + Len(part) - 1) = part

\* The headers of a request that do not carry a credential.
PlainHeaders(req) ==
  [n \in (DOMAIN req.headers) \ AuthHeaderNames |-> req.headers[n]]

(***************************************************************************)
(* C1.  If attempt 1 of a retried operation succeeds, the call resolves    *)
(* with that response and exactly one request has been sent: no second or  *)
(* third request is ever issued.                                           *)
(***************************************************************************)
C1_FirstSuccessSingleRequest ==
  \A c \in DOMAIN calls :
    (Len(calls[c].results) >= 1 /\ calls[c].results[1].ok) =>
      /\ calls[c].pc = "settled"
      /\ calls[c].outcome = Resolved(calls[c].results[1].value)
      /\ Len(calls[c].reqs) = 1
      /\ Len(calls[c].results) = 1

C1_Witness ==
  \E c \in DOMAIN calls :
    /\ calls[c].op = "assignUserToTask"
    /\ calls[c].pc = "settled"
    /\ Len(calls[c].results) = 1
    /\ calls[c].results[1].ok
    /\ calls[c].outcome.state = "resolved"

(***************************************************************************)
(* C2.  If attempt 1 of a retried operation fails with 401 or 403, attempt *)
(* 2 is sent with the alternate header X-API-Token; if attempt 2 succeeds, *)
(* the call resolves with attempt 2's response after exactly two requests, *)
(* and no attempt 3 is sent.                                               *)
(***************************************************************************)
C2_SecondAttemptAlternateHeader ==
  \A c \in DOMAIN calls :
    /\ (calls[c].op \in RetriedOps /\ Len(calls[c].results) >= 1
         /\ AuthFailed(calls[c].results[1])) =>
         /\ Len(calls[c].reqs) >= 2
         /\ "X-API-Token" \in DOMAIN calls[c].reqs[2].headers
    /\ (Len(calls[c].results) >= 2 /\ calls[c].results[2].ok) =>
         /\ AuthFailed(calls[c].results[1])
         /\ calls[c].pc = "settled"
         /\ calls[c].outcome = Resolved(calls[c].results[2].value)
         /\ Len(calls[c].reqs) = 2
         /\ Len(calls[c].results) = 2

C2_Witness ==
  \E c \in DOMAIN calls :
    /\ calls[c].op = "updateTaskLabels"
    /\ calls[c].pc = "settled"
    /\ Len(calls[c].results) = 2
    /\ AuthFailed(calls[c].results[1])
    /\ calls[c].results[1].error.statusCode = 403
    /\ calls[c].results[2].ok
    /\ calls[c].outcome.state = "resolved"

(***************************************************************************)
(* C3.  If all three attempts fail with status 401 or 403 (in any mix),    *)
(* the call rejects with the specialized error of its family               *)
(* (AssigneeAuthenticationError for the assignee operations,               *)
(* LabelAuthenticationError for the label operations) whose endpoint,      *)
(* method, status code and response are those of attempt 3's error and     *)
(* whose message embeds attempt 3's error message.                         *)
(***************************************************************************)
C3_ExhaustedCascadeSpecializedError ==
  \A c \in DOMAIN calls :
    (/\ Len(calls[c].results) = 3
     /\ \A i \in 1..3 : AuthFailed(calls[c].results[i])) =>
      LET e3 == calls[c].results[3].error
          out == calls[c].outcome
      IN  /\ calls[c].pc = "settled"
          /\ out.state = "rejected"
          /\ calls[c].op \in AssigneeOps =>
               /\ out.error.cls = "AssigneeAuthenticationError"
               /\ Embeds(out.error.message,
                         "Assignee operation failed due to authentication issue")
          /\ calls[c].op \in LabelOps =>
               /\ out.error.cls = "LabelAuthenticationError"
               /\ Embeds(out.error.message,
                         "Label operation failed due to authentication issue")
          /\ out.error.endpoint = e3.endpoint
          /\ out.error.method = e3.method
          /\ out.error.statusCode = e3.statusCode
          /\ out.error.response = e3.response
          /\ Embeds(out.error.message, e3.message)

\* Attempt 3's error differs from attempt 1's and attempt 2's in status and
\* in body, and the caller holds the specialized error made from it.
C3_Witness ==
  \E c \in DOMAIN calls :
    /\ calls[c].op = "bulkAssignUsersToTask"
    /\ calls[c].pc = "settled"
    /\ Len(calls[c].results) = 3
    /\ \A i \in 1..3 : AuthFailed(calls[c].results[i])
    /\ calls[c].results[1].error.statusCode = 401
    /\ calls[c].results[2].error.statusCode = 401
    /\ calls[c].results[3].error.statusCode = 403
    /\ calls[c].results[1].error.message = "m1"
    /\ calls[c].results[2].error.message = "m1"
    /\ calls[c].results[3].error.message = "m2"
    /\ calls[c].outcome.error.cls = "AssigneeAuthenticationError"
    /\ calls[c].outcome.error.statusCode = 403

(***************************************************************************)
(* C4.  If attempt 1 fails with a status other than 401/403 (500, or 0 for *)
(* a network failure), there is no retry: exactly one request is sent and  *)
(* the call rejects with attempt 1's error, unchanged.                     *)
(***************************************************************************)
C4_NonAuthFirstErrorPropagates ==
  \A c \in DOMAIN calls :
    (Len(calls[c].results) >= 1 /\ OtherFailed(calls[c].results[1])) =>
      /\ calls[c].pc = "settled"
      /\ calls[c].outcome = Rejected(calls[c].results[1].error)
      /\ Len(calls[c].reqs) = 1
      /\ Len(calls[c].results) = 1

C4_Witness ==
  \E c \in DOMAIN calls :
    /\ calls[c].op = "removeLabelFromTask"
    /\ calls[c].pc = "settled"
    /\ Len(calls[c].results) = 1
    /\ ~calls[c].results[1].ok
    /\ calls[c].results[1].error.statusCode = 500
    /\ calls[c].outcome.state = "rejected"

(***************************************************************************)
(* C5.  An error at attempt 2 or attempt 3 whose status is not 401/403 is  *)
(* thrown to the caller at once and unchanged: the call rejects with that  *)
(* attempt's error (not an earlier one, not a specialized error) and no    *)
(* further request is sent.                                                *)
(***************************************************************************)
C5_LaterNonAuthErrorPropagates ==
  \A c \in DOMAIN calls :
    \A n \in {2, 3} :
      (Len(calls[c].results) >= n /\ OtherFailed(calls[c].results[n])) =>
        /\ calls[c].pc = "settled"
        /\ calls[c].outcome = Rejected(calls[c].results[n].error)
        /\ Len(calls[c].reqs) = n
        /\ Len(calls[c].results) = n

\* Attempts 1 and 2 failed with 401/403 and attempt 3 with 500.
C5_Witness ==
  \E c \in DOMAIN calls :
    /\ calls[c].op = "addLabelToTask"
    /\ calls[c].pc = "settled"
    /\ Len(calls[c].results) = 3
    /\ OtherFailed(calls[c].results[3])
    /\ calls[c].results[3].error.statusCode = 500
    /\ calls[c].outcome.state = "rejected"
    /\ calls[c].outcome.error.cls = "VikunjaError"

(***************************************************************************)
(* C6.  One logical call of a retried operation never has more than three  *)
(* requests sent, whatever the answers.                                    *)
(***************************************************************************)
C6_AtMostThreeRequests ==
  \A c \in DOMAIN calls : Len(calls[c].reqs) <= 3

C6_Witness ==
  \E c \in DOMAIN calls :
    /\ calls[c].op = "removeLabelFromTask"
    /\ calls[c].pc = "settled"
    /\ Len(calls[c].reqs) = 3
    /\ Len(calls[c].results) = 3
    /\ AuthFailed(calls[c].results[3])

(***************************************************************************)
(* C7.  The attempts of one call are strictly sequential and in the fixed  *)
(* order standard header, alternate header, lowercase header: at most one  *)
(* request of the call is in flight, attempt n+1 is sent only when attempt *)
(* n has been answered and its failure is a 401/403, and so attempt 3 is   *)
(* never sent unless attempt 2 was sent and failed.                        *)
(***************************************************************************)
C7_SequentialFixedOrder ==
  \A c \in DOMAIN calls :
    /\ Len(calls[c].results) <= Len(calls[c].reqs)
    /\ Len(calls[c].reqs) <= Len(calls[c].results) + 1
    /\ (calls[c].pc = "await") <=> (Len(calls[c].reqs) = Len(calls[c].results) + 1)
    /\ \A n \in 1..Len(calls[c].reqs) :
         /\ n <= 3
         /\ Variant(calls[c].reqs[n]) = VariantOrder[n]
         /\ n >= 2 => /\ Len(calls[c].results) >= n - 1
                      /\ AuthFailed(calls[c].results[n - 1])

\* Attempt 3 is in flight, the two attempts before it answered.
C7_Witness ==
  \E c \in DOMAIN calls :
    /\ calls[c].op = "removeUserFromTask"
    /\ calls[c].pc = "await"
    /\ Len(calls[c].reqs) = 3
    /\ Len(calls[c].results) = 2
    /\ Variant(calls[c].reqs[3]) = "lowercase"

(***************************************************************************)
(* C8.  Every attempt of one call goes to the same URL with the same HTTP  *)
(* method and the same body as attempt 1; the requests differ only in the  *)
(* headers that carry the credential.                                      *)
(***************************************************************************)
C8_SameEndpointAndPayload ==
  \A c \in DOMAIN calls :
    \A n \in 1..Len(calls[c].reqs) :
      /\ calls[c].reqs[n].method = calls[c].reqs[1].method
      /\ calls[c].reqs[n].url = calls[c].reqs[1].url
      /\ calls[c].reqs[n].body = calls[c].reqs[1].body
      /\ PlainHeaders(calls[c].reqs[n]) = PlainHeaders(calls[c].reqs[1])

\* Three requests of a call with a body, their credential headers all different.
C8_Witness ==
  \E c \in DOMAIN calls :
    /\ calls[c].op = "bulkAssignUsersToTask"
    /\ Len(calls[c].reqs) = 3
    /\ calls[c].reqs[1].body.present
    /\ calls[c].reqs[1].headers # calls[c].reqs[2].headers
    /\ calls[c].reqs[2].headers # calls[c].reqs[3].headers
    /\ calls[c].reqs[1].headers # calls[c].reqs[3].headers

C10_LowercaseBearerSameCredential ==
  \A c \in DOMAIN calls :
    Len(calls[c].reqs) >= 3 =>
      LET h1 == calls[c].reqs[1].headers
          h3 == calls[c].reqs[3].headers
      IN  /\ Len(calls[c].results) >= 2
          /\ AuthFailed(calls[c].results[2])
          /\ "authorization" \in DOMAIN h3
          /\ HasPrefix(h3["authorization"], "Bearer ")
          /\ "Authorization" \in DOMAIN h1
          /\ h3["authorization"] = h1["Authorization"]

\* The same statement for the clients that have a token configured, where
\* the template of attempt 3 prints the token itself.
C10_WithConfiguredToken ==
  Truthy(client.token) => C10_LowercaseBearerSameCredential

\* Without a token attempt 3 still sends a credential header, built from the
\* printed form of the missing token.
C10_NoTokenAttempt3 ==
  \A c \in DOMAIN calls :
    (Len(calls[c].reqs) >= 3 /\ ~client.token.set) =>
      /\ "Authorization" \notin DOMAIN calls[c].reqs[1].headers
      /\ calls[c].reqs[3].headers["authorization"] = "Bearer undefined"

(***************************************************************************)
(* The operations that are not retried.                                    *)
(***************************************************************************)
\* C11: every operation other than the six retried ones issues exactly one
\* request per call whatever the outcome, and the error of that request,
\* a 401/403 on getTaskAssignees or getTaskLabels included, is the
\* rejection of the call at once.
C11_NonRetriedNeverRetries ==
  \A c \in DOMAIN calls :
    LET call == calls[c]
    IN  (call.pc # "idle" /\ call.op \notin RetriedOps) =>
          /\ Len(call.reqs) = 1
          /\ Len(call.results) <= 1
          /\ call.attempt = 1
          /\ (Len(call.results) = 1) <=> (call.pc = "settled")
          /\ (Len(call.results) = 1 /\ ~call.results[1].ok) =>
                call.outcome = Rejected(call.results[1].error)

\* A read of the assignee or label family answered 401/403: rejected with
\* that error after one request.
C11_Witness ==
  \E c \in DOMAIN calls :
    /\ calls[c].op \in {"getTaskAssignees", "getTaskLabels"}
    /\ calls[c].pc = "settled"
    /\ Len(calls[c].reqs) = 1
    /\ AuthFailed(calls[c].results[1])
    /\ calls[c].outcome = Rejected(calls[c].results[1].error)

\* The answered call of a non-retried operation in slot c.
NonRetriedAnswered(c) ==
  /\ calls[c].pc = "settled"
  /\ calls[c].op \notin RetriedOps
  /\ Len(calls[c].answers) = 1

\* C12 as stated: for every non-retried method a 2xx JSON response is the
\* value returned; a non-2xx response rejects with the status of the
\* response and the message of its body, or 'API request failed with status
\* N' when the body is not JSON; a network failure rejects with status 0
\* and the message of the network error.
C12_ResponseMapping ==
  \A c \in DOMAIN calls :
    NonRetriedAnswered(c) =>
      LET r == calls[c].answers[1]
          o == calls[c].outcome
      IN  /\ r.kind = "neterr" =>
                /\ o.state = "rejected"
                /\ o.error.statusCode = 0
                /\ o.error.message = r.message
          /\ (r.kind = "http" /\ IsOk(r.status) /\ r.json) => o = Resolved(r.body)
          /\ (r.kind = "http" /\ ~IsOk(r.status)) =>
                /\ o.state = "rejected"
                /\ o.error.statusCode = r.status
                /\ o.error.message =
                     (IF r.json THEN r.body.message ELSE FallbackMessage(r.status))

\* C12 amended: as C12, except that an error body without a message gives
\* the message 'API request failed with status N' too, and a network error
\* without a message gives the message 'Network error'.
C12_ResponseMappingWithDefaults ==
  \A c \in DOMAIN calls :
    NonRetriedAnswered(c) =>
      LET r == calls[c].answers[1]
          o == calls[c].outcome
      IN  /\ r.kind = "neterr" =>
                /\ o.state = "rejected"
                /\ o.error.statusCode = 0
                /\ o.error.message = (IF r.message = "" THEN "Network error" ELSE r.message)
          /\ (r.kind = "http" /\ IsOk(r.status) /\ r.json) => o = Resolved(r.body)
          /\ (r.kind = "http" /\ ~IsOk(r.status)) =>
                /\ o.state = "rejected"
                /\ o.error.statusCode = r.status
                /\ o.error.message =
                     (IF r.json /\ r.body.message # "" THEN r.body.message
                      ELSE FallbackMessage(r.status))

\* An upload whose fetch failed with an error without a message: rejected
\* with status 0 and the message 'Network error'.
C12_Witness ==
  \E c \in DOMAIN calls :
    /\ NonRetriedAnswered(c)
    /\ calls[c].op = "uploadTaskAttachment"
    /\ calls[c].answers[1] = [kind |-> "neterr", message |-> ""]
    /\ calls[c].outcome.state = "rejected"
    /\ calls[c].outcome.error.statusCode = 0
    /\ calls[c].outcome.error.message = "Network error"

(***************************************************************************)
(* uploadTaskAttachment.                                                   *)
(***************************************************************************)
\* The answered upload in slot c.
UploadAnswered(c) ==
  /\ calls[c].pc = "settled"
  /\ calls[c].op = "uploadTaskAttachment"
  /\ Len(calls[c].answers) = 1

\* C13: uploadTaskAttachment classifies the response itself: a non-2xx
\* response rejects with VikunjaAuthenticationError when its status is 401
\* or 403 and with a plain VikunjaError for any other status, the error
\* carrying endpoint /tasks/{id}/attachments, method PUT, the status of the
\* response and its parsed error body; a failure of fetch rejects with a
\* plain VikunjaError of status 0.
C13_UploadClassifiesResponse ==
  \A c \in DOMAIN calls :
    UploadAnswered(c) =>
      LET r == calls[c].answers[1]
          o == calls[c].outcome
      IN  /\ (r.kind = "http" /\ ~IsOk(r.status)) =>
                /\ o.state = "rejected"
                /\ o.error.cls = (IF r.status \in {401, 403} THEN "VikunjaAuthenticationError"
                                  ELSE "VikunjaError")
                /\ o.error.endpoint = "/tasks/" \o ToString(calls[c].taskId) \o "/attachments"
                /\ o.error.method = "PUT"
                /\ o.error.statusCode = r.status
                /\ r.json => o.error.response = r.body
          /\ r.kind = "neterr" =>
                /\ o.state = "rejected"
                /\ o.error.cls = "VikunjaError"
                /\ o.error.statusCode = 0

\* An upload answered 403 with a JSON error body: rejected as an
\* authentication error that carries the body.
C13_Witness ==
  \E c \in DOMAIN calls :
    /\ UploadAnswered(c)
    /\ calls[c].answers[1].kind = "http"
    /\ calls[c].answers[1].status = 403
    /\ calls[c].answers[1].json
    /\ calls[c].outcome.state = "rejected"
    /\ calls[c].outcome.error.cls = "VikunjaAuthenticationError"
    /\ calls[c].outcome.error.response = calls[c].answers[1].body

\* C14: uploadTaskAttachment sends the caller's multipart body as it is
\* with method PUT, sets no Content-Type header, and sends the header
\* 'Authorization: Bearer <token>' exactly when the client has a (non-empty)
\* token.
C14_UploadRequestShape ==
  \A c \in DOMAIN calls :
    (calls[c].pc # "idle" /\ calls[c].op = "uploadTaskAttachment") =>
      LET req == calls[c].reqs[1]
          configured == client.token.set /\ client.token.value # ""
      IN  /\ Len(calls[c].reqs) = 1
          /\ req.method = "PUT"
          /\ req.body = [present |-> TRUE, multipart |-> calls[c].arg.form]
          /\ "Content-Type" \notin DOMAIN req.headers
          /\ "content-type" \notin DOMAIN req.headers
          /\ configured => req.headers = ("Authorization" :> ("Bearer " \o client.token.value))
          /\ ~configured => DOMAIN req.headers = {}

\* An upload in flight on a client without a token: no header at all.
C14_Witness ==
  \E c \in DOMAIN calls :
    /\ calls[c].op = "uploadTaskAttachment"
    /\ calls[c].pc = "await"
    /\ ~client.token.set
    /\ DOMAIN calls[c].reqs[1].headers = {}
    /\ calls[c].reqs[1].body.multipart = "file1"

(***************************************************************************)
(* The endpoint table.                                                     *)
(***************************************************************************)
CreateOps ==
  {"createTask", "assignUserToTask", "createTaskComment", "addLabelToTask",
   "createTaskRelation", "uploadTaskAttachment"}

UpdateOps ==
  {"updateTask", "markTaskDone", "markTaskUndone", "bulkAssignUsersToTask",
   "updateTaskComment", "updateTaskLabels", "bulkUpdateTasks", "updateTasksAcrossProjects"}

ReadOps ==
  {"getAllTasks", "getProjectTasks", "getTask", "getTaskAssignees", "getTaskComments",
   "getTaskComment", "getTaskAttachments", "getTaskAttachment", "getTaskLabels"}

RemoveOps ==
  {"deleteTask", "removeUserFromTask", "deleteTaskComment", "removeLabelFromTask",
   "deleteTaskRelation", "deleteTaskAttachment"}

\* The method of the endpoint table for operation op.
TableMethod(op) ==
  CASE op \in CreateOps -> "PUT"
    [] op \in UpdateOps -> "POST"
    [] op \in ReadOps -> "GET"
    [] op \in RemoveOps -> "DELETE"

\* The path of the endpoint table for a call of op with leading id `id` and
\* further argument arg.
TablePath(op, id, arg) ==
  LET task == "/tasks/" \o ToString(id)
  IN  CASE op = "getAllTasks" -> "/tasks"
        [] op \in {"getProjectTasks", "createTask"} -> "/projects/" \o ToString(id) \o "/tasks"
        [] op \in {"getTask", "updateTask", "deleteTask"} -> task
        [] op = "markTaskDone" -> task \o "/done"
        [] op = "markTaskUndone" -> task \o "/undone"
        [] op \in {"getTaskAssignees", "assignUserToTask"} -> task \o "/assignees"
        [] op = "bulkAssignUsersToTask" -> task \o "/assignees/bulk"
        [] op = "removeUserFromTask" -> task \o "/assignees/" \o ToString(arg.id)
        [] op \in {"getTaskComments", "createTaskComment"} -> task \o "/comments"
        [] op \in {"getTaskComment", "updateTaskComment", "deleteTaskComment"} ->
             task \o "/comments/" \o ToString(arg.id)
        [] op \in {"getTaskLabels", "addLabelToTask"} -> task \o "/labels"
        [] op = "removeLabelFromTask" -> task \o "/labels/" \o ToString(arg.id)
        [] op = "updateTaskLabels" -> task \o "/labels/bulk"
        [] op = "createTaskRelation" -> task \o "/relations"
        [] op = "deleteTaskRelation" ->
             task \o "/relations/" \o arg.kind \o "/" \o ToString(arg.id)
        [] op \in {"bulkUpdateTasks", "updateTasksAcrossProjects"} -> "/tasks/bulk"
        [] op \in {"getTaskAttachments", "uploadTaskAttachment"} -> task \o "/attachments"
        [] op \in {"getTaskAttachment", "deleteTaskAttachment"} ->
             task \o "/attachments/" \o ToString(arg.id)

\* C15: every request of every operation has the method and the path of
\* the endpoint table, for every id: PUT for the create-style operations,
\* POST for update, bulk, done and undone, GET for reads, DELETE for
\* removals; assign-user is PUT /tasks/{id}/assignees with body {user_id},
\* bulk-assign POST /tasks/{id}/assignees/bulk, remove-user DELETE
\* /tasks/{id}/assignees/{userId}, bulk label update POST
\* /tasks/{id}/labels/bulk.
C15_EndpointTable ==
  \A c \in DOMAIN calls :
    calls[c].pc # "idle" =>
      \A i \in 1..Len(calls[c].reqs) :
        LET req == calls[c].reqs[i]
        IN  /\ req.method = TableMethod(calls[c].op)
            /\ req.path = TablePath(calls[c].op, calls[c].taskId, calls[c].arg)
            /\ HasPrefix(req.url, BaseUrl \o req.path)
            /\ calls[c].op = "assignUserToTask" =>
                  req.body = [present |-> TRUE, json |-> [user_id |-> calls[c].arg.id]]

\* A bulk assignment on its second attempt and still POST to
\* /tasks/2/assignees/bulk.
C15_Witness ==
  \E c \in DOMAIN calls :
    /\ calls[c].op = "bulkAssignUsersToTask"
    /\ calls[c].taskId = 2
    /\ Len(calls[c].reqs) = 2
    /\ calls[c].reqs[2].method = "POST"
    /\ calls[c].reqs[2].path = "/tasks/2/assignees/bulk"

(***************************************************************************)
(* getAllTasks.                                                            *)
(***************************************************************************)
\* The query string expected for each params object handed to getAllTasks:
\* the scenario of the specification, the URLs the tests expect, and the
\* caller's order and omissions kept.
ExpectedQuery(params) ==
  CASE params = <<>> -> ""
    [] params = <<NumParam("page", 1), NumParam("per_page", 10), StrParam("s", "x"),
                  StrParam("sort_by", "title"), StrParam("order_by", "asc"),
                  StrParam("filter", "done equals false")>> ->
         "?page=1&per_page=10&s=x&sort_by=title&order_by=asc&filter=done+equals+false"
    [] params = <<NumParam("page", 1), NumParam("per_page", 10), StrParam("s", "search term"),
                  StrParam("sort_by", "title"), StrParam("order_by", "asc"),
                  StrParam("filter", "done equals false")>> ->
         "?page=1&per_page=10&s=search+term&sort_by=title&order_by=asc&filter=done+equals+false"
    [] params = <<StrParam("filter", "done equals false and priority equals 1")>> ->
         "?filter=done+equals+false+and+priority+equals+1"
    [] params = <<StrParam("filter", "due_date equals "),
                  BoolParam("filter_include_nulls", TRUE)>> ->
         "?filter=due_date+equals+&filter_include_nulls=true"
    [] params = <<NumParam("per_page", 10), NumParam("page", 1)>> -> "?per_page=10&page=1"
    [] params = <<NumParam("page", 1), UndefinedParam("s"), NumParam("per_page", 10)>> ->
         "?page=1&per_page=10"
    [] OTHER -> "?"

\* C16: a call of getAllTasks issues exactly one request, a GET to /tasks
\* whose query string holds the caller's parameters as given and in the
\* order given, nothing for an absent parameter, and a 2xx response is the
\* value returned.
C16_GetAllTasksOneGet ==
  \A c \in DOMAIN calls :
    (calls[c].pc # "idle" /\ calls[c].op = "getAllTasks") =>
      /\ Len(calls[c].reqs) = 1
      /\ calls[c].reqs[1].method = "GET"
      /\ calls[c].reqs[1].path = "/tasks"
      /\ calls[c].reqs[1].url
           = "https://vikunja.example.com/api/v1/tasks" \o ExpectedQuery(calls[c].arg.params)
      /\ calls[c].reqs[1].body = [present |-> FALSE, json |-> [none |-> TRUE]]
      /\ (calls[c].pc = "settled" /\ calls[c].answers[1].kind = "http"
            /\ calls[c].answers[1].status = 200) =>
           calls[c].outcome = Resolved(calls[c].answers[1].body)

\* The scenario of the specification, answered 200: one GET to the URL of
\* the scenario, resolved with the list of the response.
C16_Witness ==
  \E c \in DOMAIN calls :
    /\ calls[c].op = "getAllTasks"
    /\ calls[c].pc = "settled"
    /\ Len(calls[c].reqs) = 1
    /\ calls[c].reqs[1].url =
         "https://vikunja.example.com/api/v1/tasks?page=1&per_page=10&s=x&sort_by=title&order_by=asc&filter=done+equals+false"
    /\ calls[c].outcome = Resolved([data |-> "v1"])

(***************************************************************************)
(* Concurrent calls.                                                       *)
(***************************************************************************)
\* A call of a retried operation run alone from `call` on, the network
\* giving the answers `answers` to its requests in turn.
RECURSIVE SoloRun(_, _, _)
SoloRun(call, answers, cl) ==
  IF answers = <<>> \/ call.pc # "await"
  THEN call
  ELSE SoloRun(Answered(CascadeStep(call, RequestResult(Last(call.reqs), Head(answers)), cl),
                        Head(answers)),
               Tail(answers), cl)

\* C17: with two calls of retried operations in flight at once, in every
\* interleaving of their requests and answers each call stands exactly as
\* it would had it run alone and been given the answers to its own
\* requests: the same number of attempts, the same requests with the same
\* headers in the same order, the same outcome.
C17_ConcurrentCallsIndependent ==
  \A c \in DOMAIN calls :
    calls[c].pc # "idle" =>
      calls[c] = SoloRun(Begin(calls[c].op, calls[c].taskId, calls[c].arg,
                               Send(client, CascadeRequest(calls[c].op, 1, calls[c].taskId,
                                                           calls[c].arg, client.token))),
                         calls[c].answers, client)

\* Both calls in flight, one on its third attempt and the other on its
\* second.
C17_Witness ==
  /\ DOMAIN calls = {1, 2}
  /\ calls[1].pc = "await" /\ calls[1].attempt = 3 /\ Len(calls[1].reqs) = 3
  /\ calls[2].pc = "await" /\ calls[2].attempt = 2 /\ Len(calls[2].reqs) = 2
  /\ calls[1].op = "assignUserToTask"
  /\ calls[2].op = "updateTaskLabels"

(***************************************************************************)
(* No session state.                                                       *)
(***************************************************************************)
SpecSession == Init /\ [][NextSession]_vars

\* C18: no step of any operation changes the token or the base URL of the
\* client, and whenever a call of a retried operation starts, however the
\* call before it ended (resolved on a fallback header and exhausted
\* included), it starts at attempt 1 with one request that presents the
\* credential in the standard way.
C18_NoSessionState ==
  [][ /\ client' = client
      /\ \A c \in DOMAIN calls :
           (calls[c].pc = "idle" /\ calls'[c].pc # "idle") =>
             /\ calls'[c].attempt = 1
             /\ Len(calls'[c].reqs) = 1
             /\ Variant(calls'[c].reqs[1]) = "standard"
             /\ calls'[c].reqs[1]
                  = Send(client, CascadeRequest(calls'[c].op, 1, calls'[c].taskId,
                                                calls'[c].arg, client.token)) ]_vars

\* A call in flight at attempt 1 with the standard header, the call before
\* it having resolved only on a fallback header.
C18_Witness ==
  \E c \in DOMAIN calls :
    /\ calls[c].prev = "fallback"
    /\ calls[c].pc = "await"
    /\ calls[c].attempt = 1
    /\ client.token.value = "tokA"
    /\ DOMAIN calls[c].reqs[1].headers = {"Authorization", "Content-Type"}
    /\ calls[c].reqs[1].headers["Authorization"] = "Bearer tokA"

\* Likewise after an exhausted cascade.
C18_AfterExhaustion ==
  \E c \in DOMAIN calls :
    /\ calls[c].prev = "exhausted"
    /\ calls[c].pc = "await"
    /\ calls[c].attempt = 1
    /\ Variant(calls[c].reqs[1]) = "standard"

(***************************************************************************)
(* The specialized errors.                                                 *)
(***************************************************************************)
\* C19: a call rejects with AssigneeAuthenticationError or
\* LabelAuthenticationError only at the end of an exhausted cascade:
\* exactly three requests were sent and each of the three failed with
\* 401/403; and the error of an attempt that was followed by another
\* attempt is never what the caller gets: while a request is in flight the
\* promise is pending, and the rejection of a settled call is not the
\* error of an earlier attempt.
C19_SpecializedOnlyWhenExhausted ==
  \A c \in DOMAIN calls :
    LET call == calls[c]
    IN  /\ (call.outcome.state = "rejected"
             /\ call.outcome.error.cls \in {"AssigneeAuthenticationError",
                                            "LabelAuthenticationError"}) =>
              /\ call.op \in RetriedOps
              /\ Len(call.reqs) = 3
              /\ Len(call.results) = 3
              /\ \A i \in 1..3 : AuthFailed(call.results[i])
        /\ Len(call.reqs) > Len(call.results) => call.outcome = Pending
        /\ call.outcome.state = "rejected" =>
              \A i \in 1..(Len(call.results) - 1) :
                call.outcome.error # call.results[i].error

\* A label operation rejected with LabelAuthenticationError: three
\* requests, answered 401, 403 and 401.
C19_Witness ==
  \E c \in DOMAIN calls :
    /\ calls[c].op = "removeLabelFromTask"
    /\ calls[c].outcome.state = "rejected"
    /\ calls[c].outcome.error.cls = "LabelAuthenticationError"
    /\ Len(calls[c].reqs) = 3
    /\ calls[c].answers[1].status = 401
    /\ calls[c].answers[2].status = 403
    /\ calls[c].answers[3].status = 401

\* C20: in each of the six retried operations, when attempt 3 fails with
\* status 401 or 403, or with an error of the authentication class, the
\* call rejects with the specialized error of its family: such an error
\* of attempt 3 never reaches the caller as it is.
C20_ThirdAuthFailureSpecialized ==
  \A c \in DOMAIN calls :
    LET call == calls[c]
    IN  (/\ call.op \in RetriedOps
         /\ Len(call.results) = 3
         /\ ~call.results[3].ok
         /\ \/ call.results[3].error.statusCode \in {401, 403}
            \/ "VikunjaAuthenticationError" \in SuperClasses(call.results[3].error.cls)) =>
          /\ call.pc = "settled"
          /\ call.outcome.state = "rejected"
          /\ call.outcome.error.cls =
               (IF call.op \in AssigneeOps THEN "AssigneeAuthenticationError"
                ELSE "LabelAuthenticationError")
          /\ call.outcome.error # call.results[3].error

\* removeUserFromTask whose third attempt is answered 401 after two 403:
\* rejected with AssigneeAuthenticationError of status 401.
C20_Witness ==
  \E c \in DOMAIN calls :
    /\ calls[c].op = "removeUserFromTask"
    /\ Len(calls[c].results) = 3
    /\ calls[c].answers[1].status = 403
    /\ calls[c].answers[2].status = 403
    /\ calls[c].answers[3].status = 401
    /\ calls[c].outcome.state = "rejected"
    /\ calls[c].outcome.error.cls = "AssigneeAuthenticationError"
    /\ calls[c].outcome.error.statusCode = 401

(***************************************************************************)
(* Success on any attempt.                                                 *)
(***************************************************************************)
\* C21: a call of a retried operation that resolves hands its caller
\* exactly the response of the attempt that succeeded, and two calls whose
\* succeeding attempts were given the same response hold the same result,
\* whichever attempts (1, 2 or 3) those were.
C21_SuccessIndistinguishable ==
  /\ \A c \in DOMAIN calls :
       calls[c].outcome.state = "resolved" =>
         /\ Last(calls[c].answers).kind = "http"
         /\ calls[c].outcome = Resolved(Last(calls[c].answers).body)
  /\ \A c, d \in DOMAIN calls :
       (/\ calls[c].outcome.state = "resolved"
        /\ calls[d].outcome.state = "resolved"
        /\ Last(calls[c].answers) = Last(calls[d].answers)) =>
         calls[c].outcome = calls[d].outcome

\* One call resolved at attempt 1 and the other at attempt 3, with the same
\* response and the same result.
C21_Witness ==
  /\ DOMAIN calls = {1, 2}
  /\ calls[1].outcome.state = "resolved" /\ Len(calls[1].reqs) = 1
  /\ calls[2].outcome.state = "resolved" /\ Len(calls[2].reqs) = 3
  /\ Last(calls[1].answers) = Last(calls[2].answers)
  /\ calls[1].outcome = calls[2].outcome

(***************************************************************************)
(* No error is discarded.                                                  *)
(***************************************************************************)
\* C22: a settled call of any operation whose last request failed (no
\* answer, or an answer that is not 2xx) rejected with an error that
\* carries the endpoint and the method of that request, the status of the
\* answer (0 when there was none) and the body that came with it; a call
\* never resolved when its last request failed, and never rejected when
\* its last request succeeded (a 2xx answer).
C22_NoErrorDiscarded ==
  \A c \in DOMAIN calls :
    calls[c].pc = "settled" =>
      LET call == calls[c]
          answer == Last(call.answers)
          req == Last(call.reqs)
          failed == answer.kind = "neterr" \/ ~IsOk(answer.status)
      IN  /\ Len(call.answers) = Len(call.reqs)
          /\ failed <=> call.outcome.state = "rejected"
          /\ ~failed <=> call.outcome.state = "resolved"
          /\ failed =>
                /\ {"endpoint", "method", "statusCode", "response", "message"}
                     \subseteq DOMAIN call.outcome.error
                /\ call.outcome.error.endpoint = req.path
                /\ call.outcome.error.method = req.method
                /\ call.outcome.error.statusCode
                     = (IF answer.kind = "neterr" THEN 0 ELSE answer.status)
                /\ (answer.kind = "http" /\ answer.json) =>
                      call.outcome.error.response = answer.body

\* The same with the 2xx answers whose body is not JSON left aside: in
\* every other case C22 holds.
C22_WithParsedBodies ==
  \A c \in DOMAIN calls :
    (calls[c].pc = "settled"
     /\ ~(Last(calls[c].answers).kind = "http" /\ IsOk(Last(calls[c].answers).status)
          /\ ~Last(calls[c].answers).json)) =>
      LET call == calls[c]
          answer == Last(call.answers)
          req == Last(call.reqs)
          failed == answer.kind = "neterr" \/ ~IsOk(answer.status)
      IN  /\ Len(call.answers) = Len(call.reqs)
          /\ failed <=> call.outcome.state = "rejected"
          /\ ~failed <=> call.outcome.state = "resolved"
          /\ failed =>
                /\ {"endpoint", "method", "statusCode", "response", "message"}
                     \subseteq DOMAIN call.outcome.error
                /\ call.outcome.error.endpoint = req.path
                /\ call.outcome.error.method = req.method
                /\ call.outcome.error.statusCode
                     = (IF answer.kind = "neterr" THEN 0 ELSE answer.status)
                /\ (answer.kind = "http" /\ answer.json) =>
                      call.outcome.error.response = answer.body

\* addLabelToTask whose second request was answered 500 without a JSON
\* body: rejected with status 500 for PUT /tasks/1/labels.
C22_RejectedWithContext ==
  \E c \in DOMAIN calls :
    /\ calls[c].op = "addLabelToTask"
    /\ calls[c].pc = "settled"
    /\ Len(calls[c].reqs) = 2
    /\ calls[c].answers[2].kind = "http"
    /\ calls[c].answers[2].status = 500
    /\ ~calls[c].answers[2].json
    /\ calls[c].outcome.state = "rejected"
    /\ calls[c].outcome.error.statusCode = 500
    /\ calls[c].outcome.error.endpoint = "/tasks/1/labels"
    /\ calls[c].outcome.error.method = "PUT"

(***************************************************************************)
(* Termination.                                                            *)
(***************************************************************************)
\* Calls of retried operations one after another, every request in flight
\* being answered in the end (by a response or by a failure).
SpecTermination ==
  /\ Init
  /\ [][NextSession]_vars
  /\ WF_vars(\E c \in CallSlots, op \in RetriedOps : ResumeCall(c, op))

\* C23: provided every request in flight is answered in the end, a call of
\* a retried operation that awaits a request ends up settled (resolved or
\* rejected); it never has more than three requests; and once it is
\* settled it sends no further request.
C23_CascadeTerminates ==
  /\ \A c \in CallSlots : (calls[c].pc = "await") ~> (calls[c].pc = "settled")
  /\ [](\A c \in CallSlots : Len(calls[c].reqs) <= 3)
  /\ [][\A c \in CallSlots :
          calls[c].pc = "settled" =>
            (calls'[c].pc = "idle" \/ calls'[c].reqs = calls[c].reqs)]_vars

\* A call settled after its third request was answered.
C23_Witness ==
  \E c \in DOMAIN calls :
    /\ calls[c].op \in RetriedOps
    /\ calls[c].pc = "settled"
    /\ Len(calls[c].reqs) = 3
    /\ Len(calls[c].answers) = 3
    /\ calls[c].outcome.state \in {"resolved", "rejected"}

(***************************************************************************)
(* One protocol, six times.                                                *)
(***************************************************************************)
\* How a call stands towards its caller: pending, success, the error of
\* its last request propagated unchanged, or the specialized error.
OutcomeKind(call) ==
  CASE call.outcome.state = "pending" -> "pending"
    [] call.outcome.state = "resolved" -> "success"
    [] call.outcome.state = "rejected" ->
         IF call.outcome.error = Last(call.results).error THEN "propagated"
         ELSE IF call.outcome.error.cls \in {"AssigneeAuthenticationError",
                                               "LabelAuthenticationError"}
         THEN "specialized"
         ELSE "other"

\* The header variants of the requests of a call, in order.
Variants(call) == [i \in 1..Len(call.reqs) |-> Variant(call.reqs[i])]

\* C24: given the same sequence of per-attempt outcomes (success, a
\* VikunjaError of any status, the authentication subtype for 401/403, an
\* error that is no VikunjaError), the six retried operations have sent
\* the same number of requests with the same header variants and stand in
\* the same kind of outcome; the specialized error is the Assignee one for
\* the assignee operations and the Label one for the label operations.
C24_SameProtocol ==
  /\ \A a, b \in DOMAIN calls :
       /\ Len(calls[a].reqs) = Len(calls[b].reqs)
       /\ Variants(calls[a]) = Variants(calls[b])
       /\ calls[a].answers = calls[b].answers
       /\ OutcomeKind(calls[a]) = OutcomeKind(calls[b])
       /\ OutcomeKind(calls[a]) # "other"
  /\ \A a \in DOMAIN calls :
       OutcomeKind(calls[a]) = "specialized" =>
         calls[a].outcome.error.cls =
           (IF a \in AssigneeOps THEN "AssigneeAuthenticationError"
            ELSE "LabelAuthenticationError")

\* All six after 401, 403 and an error that is no VikunjaError: three
\* requests each, that error propagated.
C24_Witness ==
  /\ DOMAIN calls = RetriedOps
  /\ \A a \in DOMAIN calls :
       /\ Len(calls[a].reqs) = 3
       /\ Len(calls[a].answers) = 3
       /\ calls[a].answers[3].kind = "thrown"
       /\ OutcomeKind(calls[a]) = "propagated"

\* All six exhausted: the specialized error everywhere.
C24_AllSpecialized ==
  /\ DOMAIN calls = RetriedOps
  /\ \A a \in DOMAIN calls : OutcomeKind(calls[a]) = "specialized"

\* C25: the status code of an AssigneeAuthenticationError or
\* LabelAuthenticationError with which a call rejects is 401 or 403 and is
\* the status of the response to attempt 3.
C25_EmbeddedStatusOfThirdAttempt ==
  \A c \in DOMAIN calls :
    (calls[c].outcome.state = "rejected"
     /\ calls[c].outcome.error.cls \in {"AssigneeAuthenticationError",
                                         "LabelAuthenticationError"}) =>
      /\ calls[c].outcome.error.statusCode \in {401, 403}
      /\ Len(calls[c].answers) = 3
      /\ calls[c].answers[3].kind = "http"
      /\ calls[c].outcome.error.statusCode = calls[c].answers[3].status

\* assignUserToTask answered 401, 401 and 403: the specialized error holds
\* 403.
C25_Witness ==
  \E c \in DOMAIN calls :
    /\ calls[c].op = "assignUserToTask"
    /\ Len(calls[c].answers) = 3
    /\ calls[c].answers[1].status = 401
    /\ calls[c].answers[2].status = 401
    /\ calls[c].answers[3].status = 403
    /\ calls[c].outcome.state = "rejected"
    /\ calls[c].outcome.error.cls = "AssigneeAuthenticationError"
    /\ calls[c].outcome.error.statusCode = 403

\* The headers of a request that hold a credential.
CredentialHeaders == {"Authorization", "authorization", "X-API-Token"}

\* The credential headers of request req that hold a non-empty value.
CredentialsSent(req) ==
  {h \in CredentialHeaders \cap DOMAIN req.headers : req.headers[h] # ""}

\* C26: on a client constructed without a token, attempts 2 and 3 of a
\* cascade send no credential: neither the alternate header of attempt 2 nor
\* the lowercase authorization header of attempt 3 holds a non-empty value.
C26_NoCredentialWithoutToken ==
  ~client.token.set =>
    \A c \in DOMAIN calls :
      \A n \in 2..Len(calls[c].reqs) : CredentialsSent(calls[c].reqs[n]) = {}

\* What holds of C26: without a token, attempts 1 and 2 of a cascade and
\* the one request of uploadTaskAttachment send no credential.
C26_FirstTwoAttemptsWithoutCredential ==
  ~client.token.set =>
    \A c \in DOMAIN calls :
      \A n \in 1..Len(calls[c].reqs) :
        n <= 2 => CredentialsSent(calls[c].reqs[n]) = {}

\* A cascade on a client without a token reaches attempt 3.
C26_ThirdAttemptWithoutToken ==
  \E c \in DOMAIN calls :
    /\ ~client.token.set
    /\ calls[c].op \in RetriedOps
    /\ Len(calls[c].reqs) = 3
    /\ CredentialsSent(calls[c].reqs[2]) = {}
    /\ calls[c].reqs[3].headers["authorization"] = "Bearer undefined"

\* An upload on a client without a token has sent its request.
C26_UploadWithoutToken ==
  \E c \in DOMAIN calls :
    /\ ~client.token.set
    /\ calls[c].op = "uploadTaskAttachment"
    /\ Len(calls[c].reqs) = 1
    /\ CredentialsSent(calls[c].reqs[1]) = {}

\* The calls of uploadTaskAttachment.
UploadCalls == {c \in DOMAIN calls : calls[c].op = "uploadTaskAttachment"}

\* uploadTaskAttachment sends one request and, answered, settles without a
\* second one; a rejection is with an error of the VikunjaError family.
UploadOnceAndTyped(c) ==
  /\ Len(calls[c].reqs) <= 1
  /\ calls[c].pc = "settled" => (Len(calls[c].reqs) = 1 /\ Len(calls[c].answers) = 1)
  /\ Len(calls[c].answers) = 1 => calls[c].pc = "settled"
  /\ calls[c].outcome.state = "rejected" =>
       InstanceOf(calls[c].outcome.error, "VikunjaError")

\* C27: uploadTaskAttachment issues exactly one request per call and never
\* a second one, whatever the answer (401 and 403 included); it rejects only
\* with an error of the VikunjaError family; and the error has status code
\* 0 only when fetch itself failed, never when a response was received.
C27_UploadSingleRequestStatusZero ==
  \A c \in UploadCalls :
    /\ UploadOnceAndTyped(c)
    /\ (calls[c].outcome.state = "rejected" /\ calls[c].outcome.error.statusCode = 0) =>
         Last(calls[c].answers).kind = "neterr"

\* What holds of C27: one request, no retry, typed errors; and a response
\* with an error status is reported with that status.
C27_UploadSingleRequestTyped ==
  \A c \in UploadCalls :
    /\ UploadOnceAndTyped(c)
    /\ (calls[c].outcome.state = "rejected" /\ Last(calls[c].answers).kind = "http"
         /\ ~IsOk(Last(calls[c].answers).status)) =>
         calls[c].outcome.error.statusCode = Last(calls[c].answers).status

\* An upload answered 401 has rejected after its one request.
C27_UploadNotRetried ==
  \E c \in UploadCalls :
    /\ Len(calls[c].reqs) = 1
    /\ Len(calls[c].answers) = 1
    /\ Last(calls[c].answers).kind = "http"
    /\ Last(calls[c].answers).status = 401
    /\ calls[c].outcome.state = "rejected"
    /\ calls[c].outcome.error.cls = "VikunjaAuthenticationError"

\* An upload answered 200 with a body that is not JSON has rejected with
\* status code 0.
C27_ReceivedResponseAsStatusZero ==
  \E c \in UploadCalls :
    /\ Len(calls[c].answers) = 1
    /\ Last(calls[c].answers).kind = "http"
    /\ IsOk(Last(calls[c].answers).status)
    /\ calls[c].outcome.state = "rejected"
    /\ calls[c].outcome.error.statusCode = 0

====
